---- MODULE Spec2Model ----
(***************************************************************************)
(* The translation-memory-backed segment pipeline of Perevodik:            *)
(*   tools/chapter_splitter.py    ChapterSplitter (line mode, paragraph    *)
(*                                mode, translation units)                 *)
(*   tools/context_manager.py     TranslationMemoryManager (memory store   *)
(*                                with both backends, reference base)      *)
(*   tools/chapter_validator.py   ChapterValidator                         *)
(*   tools/optimized_context_manager.py  the cached phrase lookup          *)
(*   tools/deepl_cache.py         DeepLCache, CachedDeepLTranslator        *)
(*   tools/character_detector.py  CharacterDetector                        *)
(*   tools/chapter_translator.py  ChapterTranslator (the Resolver)         *)
(*   tools/async_deepl_translator.py  AsyncDeepLTranslator                 *)
(*                                                                         *)
(* A Python str is a sequence of one-character strings.  TLA+ strings are  *)
(* ASCII, so Cyrillic literals of the source are written in Latin          *)
(* transliteration (Sistema for the Russian word for System) and the       *)
(* quotation marks of the dialogue patterns as < > (angle quotes) and ~    *)
(* (em dash).  Optional[str] is a sequence of zero (None) or one string.   *)
(* A float similarity n/d is the reduced fraction <<n, d>>; the            *)
(* confidences of the character detector are IEEE-754 doubles.             *)
(***************************************************************************)
EXTENDS Integers, Sequences, FiniteSets, TLC

VARIABLES
    memory_file,        \* content of <db_path>/translation_memory.json
    reference_data,     \* TranslationMemoryManager.reference_data
    add_calls,          \* number of add_translation calls made so far
    last_add,           \* the most recent add_translation call: its argument and returned id
    last_find,          \* the most recent find_similar call: its arguments and its result
    last_lookup,        \* the most recent get_phrase_translation call
    phrase_cache,       \* OptimizedTranslationMemoryManager.phrase_cache
    translation_cache,  \* ChapterTranslator.translation_cache
    deepl_cache,        \* ChapterTranslator.cached_translator.cache.cache
    has_translator,     \* whether cached_translator.translator is set
    pc,                 \* where translate_with_context stands
    run_text,           \* its text argument
    run_context,        \* its context argument
    segments,           \* split_by_lines(text)
    order,              \* the segment indices in the order the run visits them
    results,            \* the results list
    calls,              \* for each result, what _translate_segment and _save_to_memory did
    collection,         \* TranslationMemoryManager.collection: None, or the records of the ChromaDB collection
    last_call,          \* the most recent call of a splitter, validator, detector or scoring function
    max_concurrent,     \* AsyncDeepLTranslator.max_concurrent
    semaphore,          \* AsyncDeepLTranslator.semaphore: its value and the batches waiting for it
    batch_cache,        \* AsyncDeepLTranslator.translation_cache
    stats,              \* AsyncDeepLTranslator.stats
    tasks,              \* the _translate_batch coroutines launched so far
    invocations,        \* the translate_batch_async calls made so far
    now                 \* datetime.now(), in hours

vars == <<memory_file, reference_data, add_calls, last_add, last_find, last_lookup,
          phrase_cache, translation_cache, deepl_cache, has_translator, pc, run_text,
          run_context, segments, order, results, calls, collection, last_call,
          max_concurrent, semaphore, batch_cache, stats, tasks, invocations, now>>

(***************************************************************************)
(* Python str operations                                                   *)
(***************************************************************************)
None == <<>>
Some(x) == <<x>>

Uppers == <<"A","B","C","D","E","F","G","H","I","J","K","L","M","N","O","P","Q","R","S","T","U","V","W","X","Y","Z">>
Lowers == <<"a","b","c","d","e","f","g","h","i","j","k","l","m","n","o","p","q","r","s","t","u","v","w","x","y","z">>

UpperSet == {Uppers[i] : i \in 1..Len(Uppers)}
LowerOf == [c \in UpperSet |-> Lowers[CHOOSE i \in 1..Len(Uppers) : Uppers[i] = c]]

\* str.lower() on one character
lower_char(c) == IF c \in UpperSet THEN LowerOf[c] ELSE c

\* str.lower()
lower(s) == [i \in 1..Len(s) |-> lower_char(s[i])]

\* the characters str.strip() and str.split() treat as whitespace
Whitespace == {" ", "\t", "\n", "\r"}

SetMin(S) == CHOOSE x \in S : \A y \in S : x <= y
SetMax(S) == CHOOSE x \in S : \A y \in S : x >= y

\* sub occurs in s at position i
occurs_at(s, sub, i) == \A k \in 1..Len(sub) : s[i + k - 1] = sub[k]

\* str.find(sub, start), 1-based; 0 when sub does not occur
find(s, sub, start) ==
    LET at == {i \in start..(Len(s) - Len(sub) + 1) : occurs_at(s, sub, i)}
    IN  IF at = {} THEN 0 ELSE SetMin(at)

\* sub in s
contains(s, sub) == \E i \in 1..(Len(s) - Len(sub) + 1) : occurs_at(s, sub, i)

RECURSIVE replace_from(_, _, _, _)
replace_from(s, old, new, start) ==
    LET i == find(s, old, start)
    IN  IF i = 0 THEN SubSeq(s, start, Len(s))
        ELSE SubSeq(s, start, i - 1) \o new \o replace_from(s, old, new, i + Len(old))

RECURSIVE interleave(_, _)
interleave(s, new) == IF s = <<>> THEN new ELSE new \o <<Head(s)>> \o interleave(Tail(s), new)

\* str.replace(old, new): every non-overlapping occurrence, left to right
replace(s, old, new) ==
    IF old = <<>> THEN interleave(s, new) ELSE replace_from(s, old, new, 1)

\* str.strip()
strip(s) ==
    LET keep == {i \in 1..Len(s) : s[i] \notin Whitespace}
    IN  IF keep = {} THEN <<>> ELSE SubSeq(s, SetMin(keep), SetMax(keep))

\* str.rstrip('\r')
rstrip_cr(s) ==
    LET keep == {i \in 1..Len(s) : s[i] # "\r"}
    IN  IF keep = {} THEN <<>> ELSE SubSeq(s, 1, SetMax(keep))

\* str.split('\n')
RECURSIVE split_lines(_)
split_lines(s) ==
    LET i == find(s, <<"\n">>, 1)
    IN  IF i = 0 THEN <<s>>
        ELSE <<SubSeq(s, 1, i - 1)>> \o split_lines(SubSeq(s, i + 1, Len(s)))

\* set(str.split()): the maximal runs of non-whitespace characters
word_set(s) ==
    LET n == Len(s)
        runs == {p \in (1..n) \X (1..n) :
                    /\ p[1] <= p[2]
                    /\ \A k \in p[1]..p[2] : s[k] \notin Whitespace
                    /\ (p[1] = 1 \/ s[p[1] - 1] \in Whitespace)
                    /\ (p[2] = n \/ s[p[2] + 1] \in Whitespace)}
    IN  {SubSeq(s, p[1], p[2]) : p \in runs}

count_char(s, c) == Cardinality({i \in 1..Len(s) : s[i] = c})

RECURSIVE join(_, _)
join(parts, sep) ==
    IF parts = <<>> THEN <<>>
    ELSE IF Len(parts) = 1 THEN parts[1]
    ELSE parts[1] \o sep \o join(Tail(parts), sep)

RECURSIVE Gcd(_, _)
Gcd(a, b) == IF b = 0 THEN a ELSE Gcd(b, a % b)

\* the float n/d
Frac(n, d) == LET g == Gcd(n, d) IN <<n \div g, d \div g>>
\* float comparison a >= b
frac_ge(a, b) == a[1] * b[2] >= b[1] * a[2]

(***************************************************************************)
(* TranslationMemoryManager, file backend (self.collection is None: the    *)
(* ChromaDB package is absent or its initialisation failed).  The store    *)
(* file and the reference base are the same file,                          *)
(* <db_path>/translation_memory.json: it holds either a JSON list (the     *)
(* store) or a JSON object (the reference base).  Record timestamps        *)
(* (datetime.now()) are left out: no operation reads them.                 *)
(***************************************************************************)
Underscore == <<"_">>

\* hashlib.md5(f"{source_text}_{chapter}").hexdigest(); md5 is taken to be
\* collision-free, so the id is the string that is hashed
memory_id(source_text, chapter) == source_text \o Underscore \o chapter

\* the dataclass TranslationMemory
TranslationMemory(source_text, target_text, chapter, character, context, quality_score) ==
    [source_text |-> source_text, target_text |-> target_text, chapter |-> chapter,
     character |-> character, context |-> context, quality_score |-> quality_score]

\* _add_to_file_system: the file after the call and the returned id.  On a
\* file that holds a JSON object data.append raises, the except branch
\* returns "" and the file is left as it was.
add_to_file_system(file, memory) ==
    IF file.kind # "list"
    THEN [file |-> file, id |-> <<>>]
    ELSE LET id == memory_id(memory.source_text, memory.chapter)
             translation_data ==
                 [id |-> id,
                  source_text |-> memory.source_text,
                  target_text |-> memory.target_text,
                  chapter |-> memory.chapter,
                  character |-> memory.character,
                  context |-> memory.context,
                  quality_score |-> memory.quality_score]
         IN  [file |-> [file EXCEPT !.data = Append(@, translation_data)], id |-> id]

\* add_translation with self.collection = None
add_translation(file, memory) == add_to_file_system(file, memory)

\* a variant of token_similarity that compares the words as written, without
\* lower()
token_similarity_cased(text, item_source) ==
    LET source_words == word_set(text)
        item_words == word_set(item_source)
    IN  IF source_words # {} /\ item_words # {}
        THEN Some(Frac(Cardinality(source_words \cap item_words),
                       Cardinality(source_words \cup item_words)))
        ELSE None

\* the similarity of _find_similar_file_system: None when either word set is
\* empty, else |intersection| / |union| of the lowercased word sets
token_similarity(text, item_source) ==
    LET source_words == word_set(lower(text))
        item_words == word_set(lower(item_source))
    IN  IF source_words # {} /\ item_words # {}
        THEN Some(Frac(Cardinality(source_words \cap item_words),
                       Cardinality(source_words \cup item_words)))
        ELSE None

similar_entry(item, similarity) ==
    [source_text |-> item.source_text, target_text |-> item.target_text,
     chapter |-> item.chapter, character |-> item.character,
     similarity |-> similarity, context |-> item.context]

\* the loop of _find_similar_file_system over data[from..]
RECURSIVE collect_similar(_, _, _, _)
collect_similar(data, text, threshold, from) ==
    IF from > Len(data) THEN <<>>
    ELSE LET item == data[from]
             entry(sim) ==
                 IF sim # None /\ frac_ge(sim[1], threshold)
                 THEN <<similar_entry(item, sim[1])>>
                 ELSE <<>>
         IN  entry(token_similarity(text, item.source_text))
             \o collect_similar(data, text, threshold, from + 1)

\* a variant of insert_by_similarity that puts an entry before the entries of
\* equal similarity: a sort that reverses ties
insert_before_equal(sorted, x) ==
    LET k == Cardinality({i \in 1..Len(sorted) :
                             /\ frac_ge(sorted[i].similarity, x.similarity)
                             /\ sorted[i].similarity # x.similarity})
    IN  SubSeq(sorted, 1, k) \o <<x>> \o SubSeq(sorted, k + 1, Len(sorted))

\* list.sort(key=similarity, reverse=True): a stable sort, equal keys keep
\* their order
insert_by_similarity(sorted, x) ==
    LET k == Cardinality({i \in 1..Len(sorted) : frac_ge(sorted[i].similarity, x.similarity)})
    IN  SubSeq(sorted, 1, k) \o <<x>> \o SubSeq(sorted, k + 1, Len(sorted))

RECURSIVE sort_by_similarity(_, _)
sort_by_similarity(sorted, todo) ==
    IF todo = <<>> THEN sorted
    ELSE sort_by_similarity(insert_by_similarity(sorted, Head(todo)), Tail(todo))

\* similar_translations[:max_results], max_results >= 0
take(s, n) == SubSeq(s, 1, IF n < Len(s) THEN n ELSE Len(s))

\* _find_similar_file_system.  On a file that holds a JSON object the loop
\* raises on the first key (or does not run) and [] is returned.
find_similar_file_system(file, text, threshold, max_results) ==
    IF file.kind # "list" THEN <<>>
    ELSE take(sort_by_similarity(<<>>, collect_similar(file.data, text, threshold, 1)),
              max_results)

\* find_similar with self.collection = None
find_similar(file, text, threshold, max_results) ==
    find_similar_file_system(file, text, threshold, max_results)

(***************************************************************************)
(* The reference base (translation_memory.json read as a JSON object).     *)
(* A dict is the sequence of its <<key, value>> pairs in insertion order;  *)
(* a key the object does not have is a field equal to None.                *)
(***************************************************************************)
dict_has(d, k) == \E i \in 1..Len(d) : d[i][1] = k
dict_get(d, k) == d[CHOOSE i \in 1..Len(d) : d[i][1] = k][2]
dict_set(d, k, v) ==
    IF dict_has(d, k)
    THEN [i \in 1..Len(d) |-> IF d[i][1] = k THEN <<k, v>> ELSE d[i]]
    ELSE Append(d, <<k, v>>)

ReferenceData(phrase_translations, glossary_terms, translation_errors, contextual_style_rules) ==
    [phrase_translations |-> phrase_translations,
     glossary_terms |-> glossary_terms,
     translation_errors |-> translation_errors,
     contextual_style_rules |-> contextual_style_rules]

\* reference_data when the file is missing ({}), unreadable ({}) or holds the
\* store's JSON list: every "key in reference_data" test fails
NoReference == ReferenceData(None, None, None, None)

\* the pairs <<chapter index, phrase index>> of phrase_translations in the
\* order the nested loops visit them
phrase_positions(pt) ==
    {p \in (1..Len(pt)) \X (1..SetMax({0} \cup {Len(pt[i][2]) : i \in 1..Len(pt)})) :
        p[2] <= Len(pt[p[1]][2])}
position_before(p, q) == p[1] < q[1] \/ (p[1] = q[1] /\ p[2] <= q[2])
first_position(P) == CHOOSE p \in P : \A q \in P : position_before(p, q)

\* TranslationMemoryManager.get_phrase_translation(text, chapter): the
\* chapter argument is not read
get_phrase_translation(ref, text, chapter) ==
    IF ref.phrase_translations = None THEN None
    ELSE LET pt == ref.phrase_translations[1]
             exact == {i \in 1..Len(pt) : dict_has(pt[i][2], text)}
             partial == {p \in phrase_positions(pt) :
                            LET phrase == pt[p[1]][2][p[2]][1]
                            IN  \/ contains(lower(phrase), lower(text))
                                \/ contains(lower(text), lower(phrase))}
         IN  IF exact # {} THEN Some(dict_get(pt[SetMin(exact)][2], text))
             ELSE IF partial # {}
                  THEN LET p == first_position(partial) IN Some(pt[p[1]][2][p[2]][2])
                  ELSE None

\* OptimizedTranslationMemoryManager._preload_caches, the phrase cache
RECURSIVE preload_phrases(_, _)
preload_phrases(cache, pairs) ==
    IF pairs = <<>> THEN cache
    ELSE preload_phrases(dict_set(cache, lower(Head(pairs)[1]), Head(pairs)[2]), Tail(pairs))

RECURSIVE preload_chapters(_, _)
preload_chapters(cache, pt) ==
    IF pt = <<>> THEN cache
    ELSE preload_chapters(preload_phrases(cache, Head(pt)[2]), Tail(pt))

preload_phrase_cache(ref) ==
    IF ref.phrase_translations = None THEN <<>>
    ELSE preload_chapters(<<>>, ref.phrase_translations[1])

\* OptimizedTranslationMemoryManager.get_phrase_translation(text, chapter):
\* the result and the phrase cache after the call.  (functools.lru_cache on
\* the method changes no result: the reference base is never modified.)
optimized_get_phrase_translation(cache, ref, text, chapter) ==
    LET key == lower(text)
        miss == [result |-> None, cache |-> cache]
    IN  IF dict_has(cache, key) /\ dict_get(cache, key) # <<>>
        THEN [result |-> Some(dict_get(cache, key)), cache |-> cache]
        ELSE IF ref.phrase_translations = None THEN miss
        ELSE LET pt == ref.phrase_translations[1]
                 inchapter == {i \in 1..Len(pt) :
                                  /\ chapter # None /\ chapter[1] # <<>>
                                  /\ pt[i][1] = chapter[1]
                                  /\ dict_has(pt[i][2], text)}
                 anywhere == {i \in 1..Len(pt) : dict_has(pt[i][2], text)}
                 hit(i) == LET translation == dict_get(pt[i][2], text)
                           IN  [result |-> Some(translation),
                                cache |-> dict_set(cache, key, translation)]
             IN  IF inchapter # {} THEN hit(SetMin(inchapter))
                 ELSE IF anywhere # {} THEN hit(SetMin(anywhere))
                 ELSE miss

async_vars == <<max_concurrent, semaphore, batch_cache, stats, tasks, invocations>>

\* no AsyncDeepLTranslator is constructed
AsyncIdle ==
    /\ max_concurrent = 0
    /\ semaphore = [value |-> 0, waiters |-> <<>>]
    /\ batch_cache = <<>>
    /\ stats = [cache_hits |-> 0, api_calls |-> 0, errors |-> 0, total_translations |-> 0]
    /\ tasks = <<>>
    /\ invocations = <<>>

translator_vars ==
    <<has_translator, pc, run_text, run_context, segments, order, results, calls,
      translation_cache, deepl_cache>>

\* no ChapterTranslator is constructed
TranslatorIdle ==
    /\ has_translator = TRUE
    /\ pc = "off"
    /\ run_text = <<>>
    /\ run_context = None
    /\ segments = <<>>
    /\ order = <<>>
    /\ results = <<>>
    /\ calls = <<>>
    /\ translation_cache = <<>>
    /\ deepl_cache = <<>>

(***************************************************************************)
(* ChapterSplitter, line mode                                              *)
(***************************************************************************)
TextSegment(content, segment_type, line_number, character, is_dialogue, is_system) ==
    [content |-> content, segment_type |-> segment_type, line_number |-> line_number,
     character |-> character, is_dialogue |-> is_dialogue, is_system |-> is_system]

\* ChapterSplitter.dialogue_patterns: "[^"]*", <[^>]*> and ~[^~]*~ under
\* re.search
matches_dialogue(line) ==
    \/ count_char(line, "\"") >= 2
    \/ \E i, j \in 1..Len(line) : i < j /\ line[i] = "<" /\ line[j] = ">"
    \/ count_char(line, "~") >= 2

\* ChapterSplitter.system_patterns: each is a literal followed by .*, so
\* re.search succeeds exactly when the literal occurs (case-sensitive)
SplitterSystemPatterns ==
    <<<<"D","i","n","g","!">>, <<"S","i","s","t","e","m","a">>, <<"O","p","o","v","e","s","h","c","h","e","n","i","e">>, <<"P","o","l","u","c","h","e","n","o">>, <<"N","a","g","r","a","d","a">>>>

matches_system(line) ==
    \E k \in 1..Len(SplitterSystemPatterns) : contains(line, SplitterSystemPatterns[k])

\* ChapterSplitter.character_indicators
CharacterIndicators ==
    <<<<"C","z","j","a","n"," ","C","h","e","n","'">>, <<"J","i","a","n","g"," ","C","h","e","n">>, <<"E"," ","C","i","n","c","h","e","n">>, <<"Y","e"," ","Q","i","n","g","c","h","e","n","g">>,
      <<"D","u"," ","G","u","j","u","n","'">>, <<"D","u"," ","G","u","y","u","n">>, <<"S","t","a","r","e","j","s","h","i","n","a">>, <<"E","l","d","e","r">>>>

\* _detect_segment_type
detect_segment_type(line) ==
    IF strip(line) = <<>> THEN "empty_line"
    ELSE IF matches_dialogue(line) THEN "dialogue"
    ELSE IF matches_system(line) THEN "system"
    ELSE "description"

\* _detect_character: the first indicator that occurs in the line, or None
detect_character(line) ==
    LET hits == {k \in 1..Len(CharacterIndicators) : contains(line, CharacterIndicators[k])}
    IN  IF hits = {} THEN None ELSE Some(CharacterIndicators[SetMin(hits)])

\* the body of the loop of split_by_lines for line number i
line_segment(raw, i) ==
    LET line == rstrip_cr(raw)
    IN  IF strip(line) = <<>> \/ line = <<"\n">>
        THEN TextSegment(<<>>, "empty_line", i, None, FALSE, FALSE)
        ELSE TextSegment(line, detect_segment_type(line), i, detect_character(line),
                         matches_dialogue(line), matches_system(line))

\* split_by_lines
split_by_lines(text) ==
    LET lines == split_lines(text)
    IN  [i \in 1..Len(lines) |-> line_segment(lines[i], i)]

(***************************************************************************)
(* CharacterDetector                                                       *)
(***************************************************************************)
\* CharacterDetector.name_patterns, in insertion order
NamePatterns ==
    <<<<<<"C","z","j","a","n"," ","C","h","e","n","'">>, "Jiang_Chen">>, <<<<"J","i","a","n","g"," ","C","h","e","n">>, "Jiang_Chen">>,
      <<<<"c","z","j","a","n"," ","c","h","e","n","'">>, "Jiang_Chen">>, <<<<"j","i","a","n","g"," ","c","h","e","n">>, "Jiang_Chen">>,
      <<<<"E"," ","C","i","n","c","h","e","n">>, "Ye_Qingcheng">>, <<<<"Y","e"," ","Q","i","n","g","c","h","e","n","g">>, "Ye_Qingcheng">>,
      <<<<"e"," ","c","i","n","c","h","e","n">>, "Ye_Qingcheng">>, <<<<"y","e"," ","q","i","n","g","c","h","e","n","g">>, "Ye_Qingcheng">>,
      <<<<"D","u"," ","G","u","j","u","n","'">>, "Du_Guyun">>, <<<<"D","u"," ","G","u","y","u","n">>, "Du_Guyun">>,
      <<<<"d","u"," ","g","u","j","u","n","'">>, "Du_Guyun">>, <<<<"d","u"," ","g","u","y","u","n">>, "Du_Guyun">>,
      <<<<"S","t","a","r","e","j","s","h","i","n","a">>, "Elder">>, <<<<"E","l","d","e","r">>, "Elder">>,
      <<<<"s","t","a","r","e","j","s","h","i","n","a">>, "Elder">>, <<<<"e","l","d","e","r">>, "Elder">>>>

\* CharacterDetector.system_patterns, matched with re.IGNORECASE
DetectorSystemPatterns ==
    <<<<"D","i","n","g","!">>, <<"S","i","s","t","e","m","a">>, <<"O","p","o","v","e","s","h","c","h","e","n","i","e">>, <<"P","o","l","u","c","h","e","n","o">>, <<"N","a","g","r","a","d","a">>, <<"S","y","s","t","e","m">>, <<"N","o","t","i","f","i","c","a","t","i","o","n">>>>

CharacterProfile(character_type, speech_patterns, keywords, avoid_words, prefer_words) ==
    [character_type |-> character_type, speech_patterns |-> speech_patterns,
     keywords |-> keywords, avoid_words |-> avoid_words, prefer_words |-> prefer_words]

\* _create_default_profiles (character_voices.json is absent), in insertion order
CharacterProfiles ==
    <<CharacterProfile("Jiang_Chen",
          <<<<"D","a","j"," ","m","n","e">>, <<"M","o","z","h","e","s","h","'">>, <<"H","o","c","h","u">>>>,
          <<<<"b","e","z","d","e","l","'","e">>, <<"s","i","s","t","e","m","a">>, <<"n","a","g","r","a","d","a">>>>,
          <<<<"s","e","j">>, <<"d","a","b","y">>, <<"i","b","o">>, <<"v","e","s","'","m","a">>>>,
          <<<<"k","r","u","t","o">>, <<"r","e","a","l","'","n","o">>, <<"m","o","s","h","c","h","n","y","j">>>>),
      CharacterProfile("Ye_Qingcheng",
          <<<<"P","o","z","v","o","l","'","t","e">>, <<"N","e"," ","m","o","g","l","i"," ","b","y"," ","v","y">>, <<"J","a"," ","h","o","t","e","l","a"," ","b","y">>>>,
          <<<<"e","l","e","g","a","n","t","n","o","s","t","'">>, <<"k","r","a","s","o","t","a">>, <<"d","o","s","t","o","i","n","s","t","v","o">>>>,
          <<<<"s","e","j">>, <<"d","a","b","y">>, <<"i","b","o">>, <<"v","e","s","'","m","a">>>>,
          <<<<"d","e","j","s","t","v","i","t","e","l","'","n","o">>, <<"o","c","h","e","n","'">>, <<"p","r","e","k","r","a","s","n","o">>>>),
      CharacterProfile("System",
          <<<<"D","i","n","g","!">>, <<"P","o","l","u","c","h","e","n","o">>, <<"N","a","g","r","a","d","a">>>>,
          <<<<"s","i","s","t","e","m","a">>, <<"n","a","g","r","a","d","a">>, <<"u","v","e","d","o","m","l","e","n","i","e">>>>,
          <<>>,
          <<<<"D","i","n","g","!">>, <<"N","a","g","r","a","d","a"," ","p","o","l","u","c","h","e","n","a","!">>>>)>>

\* word.lower() for every word of a list
lower_all(words) == [k \in 1..Len(words) |-> lower(words[k])]

\* the profiles with every word lowercased, as the comparisons take them
LoweredProfiles ==
    [k \in 1..Len(CharacterProfiles) |->
        [speech_patterns |-> lower_all(CharacterProfiles[k].speech_patterns),
         keywords |-> lower_all(CharacterProfiles[k].keywords),
         avoid_words |-> lower_all(CharacterProfiles[k].avoid_words),
         prefer_words |-> lower_all(CharacterProfiles[k].prefer_words)]]

LoweredSystemPatterns == lower_all(DetectorSystemPatterns)

\* how many of the (lowercased) words occur in the lowercased text
count_in(words, text_lower) ==
    Cardinality({k \in 1..Len(words) : contains(text_lower, words[k])})

\* Python floats are IEEE-754 doubles.  A double x of magnitude below 4 that
\* is a multiple of 2^-56 is [neg, hi, lo] with |x| = (hi * 2^28 + lo) * 2^-56
\* and 0 <= lo < 2^28; every value the detector computes is of this kind.
Limb == 2^28

Double(neg, hi, lo) == [neg |-> neg, hi |-> hi, lo |-> lo]

\* the literals 0.0, 0.1, 0.2, 0.3, 0.5, 0.8, 0.9 and 1.0
Zero == Double(FALSE, 0, 0)
OneTenth == Double(FALSE, 26843545, 161061274)
TwoTenths == Double(FALSE, 53687091, 53687092)
ThreeTenths == Double(FALSE, 80530636, 214748364)
Half == Double(FALSE, 134217728, 0)
EightTenths == Double(FALSE, 214748364, 214748368)
NineTenths == Double(FALSE, 241591910, 107374184)
One == Double(FALSE, 268435456, 0)

\* the spacing of the doubles around a magnitude, in units of 2^-56: a
\* double holds 53 significant bits
ulp_of(hi) ==
    IF hi < 2^25 THEN 1 ELSE IF hi < 2^26 THEN 2 ELSE IF hi < 2^27 THEN 4
    ELSE IF hi < 2^28 THEN 8 ELSE IF hi < 2^29 THEN 16 ELSE 32

\* an exact result rounded to the nearest double, ties to the even one
round_double(neg, hi, lo) ==
    LET carried(h, l) == Double(neg /\ (h # 0 \/ l # 0), h + (l \div Limb), l % Limb)
        rounded(h, l, ulp) ==
            IF 2 * (l % ulp) > ulp \/ (2 * (l % ulp) = ulp /\ (l \div ulp) % 2 = 1)
            THEN carried(h, (l - (l % ulp)) + ulp)
            ELSE carried(h, l - (l % ulp))
        normal(h, l) == rounded(h, l, ulp_of(h))
    IN  normal(hi + (lo \div Limb), lo % Limb)

magnitude_ge(x, y) == x.hi > y.hi \/ (x.hi = y.hi /\ x.lo >= y.lo)

\* x + y
float_add(x, y) ==
    IF x.neg = y.neg THEN round_double(x.neg, x.hi + y.hi, x.lo + y.lo)
    ELSE IF magnitude_ge(x, y)
    THEN round_double(x.neg, (x.hi - y.hi) - 1, (x.lo - y.lo) + Limb)
    ELSE round_double(y.neg, (y.hi - x.hi) - 1, (y.lo - x.lo) + Limb)

\* -x
float_neg(x) == Double(~x.neg /\ (x.hi # 0 \/ x.lo # 0), x.hi, x.lo)

\* x > y
float_gt(x, y) ==
    IF x.neg /\ ~y.neg THEN FALSE
    ELSE IF ~x.neg /\ y.neg THEN TRUE
    ELSE IF x.neg THEN ~magnitude_ge(x, y)
    ELSE ~magnitude_ge(y, x)

\* n * x for an int n >= 0
int_times_float(n, x) == round_double(x.neg, n * x.hi, n * x.lo)

\* score after "score += step" (or "score -= step", step negated) has run
\* times times
RECURSIVE add_times(_, _, _)
add_times(score, step, times) ==
    IF times = 0 THEN score ELSE add_times(float_add(score, step), step, times - 1)

\* the score of one profile in _analyze_speech_style: the preferred words,
\* then the avoided words, then the speech patterns
speech_score(profile, text_lower) ==
    add_times(add_times(add_times(Zero, TwoTenths, count_in(profile.prefer_words, text_lower)),
                        float_neg(OneTenth), count_in(profile.avoid_words, text_lower)),
              ThreeTenths, count_in(profile.speech_patterns, text_lower))

\* the first index at which f is greatest: max(dict, key=dict.get) keeps the
\* first maximum
first_max(f) ==
    CHOOSE k \in DOMAIN f : \A j \in DOMAIN f : f[j] < f[k] \/ (f[j] = f[k] /\ k <= j)

\* the loop of _analyze_speech_style over the profiles k..: <<best_match,
\* best_score>>, best_match being 0 for None
RECURSIVE best_style(_, _, _, _)
best_style(text_lower, k, best_match, best_score) ==
    LET next(score) ==
            IF float_gt(score, best_score)
            THEN best_style(text_lower, k + 1, k, score)
            ELSE best_style(text_lower, k + 1, best_match, best_score)
    IN  IF k > Len(CharacterProfiles) THEN <<best_match, best_score>>
        ELSE next(speech_score(LoweredProfiles[k], text_lower))

\* _analyze_speech_style: None or <<character type, confidence>>
analyze_speech_style(text) ==
    LET best_of(best) ==
            IF best[1] # 0 /\ float_gt(best[2], ThreeTenths)
            THEN Some(<<CharacterProfiles[best[1]].character_type, best[2]>>)
            ELSE None
    IN  best_of(best_style(lower(text), 1, 0, Zero))

\* min(0.8, x)
min_eight_tenths(x) == IF float_gt(EightTenths, x) THEN x ELSE EightTenths

\* _analyze_keywords
analyze_keywords(text) ==
    LET best_of(score) ==
            LET best == first_max(score)
            IN  IF score[best] > 0
                THEN Some(<<CharacterProfiles[best].character_type,
                            min_eight_tenths(int_times_float(score[best], TwoTenths))>>)
                ELSE None
        scores(text_lower) ==
            [k \in 1..Len(CharacterProfiles) |->
                count_in(LoweredProfiles[k].keywords, text_lower)]
    IN  best_of(scores(lower(text)))

\* detect_character_from_text: <<character type, confidence>>
detect_character_from_text(text) ==
    LET by_name(names) ==
            IF names # {} THEN Some(<<NamePatterns[SetMin(names)][2], One>>) ELSE None
        by_analysis(style_analysis, keyword_analysis) ==
            IF style_analysis # None THEN style_analysis[1]
            ELSE IF keyword_analysis # None THEN keyword_analysis[1]
            ELSE <<"Unknown", Zero>>
        after_name(named, text_lower) ==
            IF named # None THEN named[1]
            ELSE IF \E k \in 1..Len(DetectorSystemPatterns) :
                        contains(text_lower, LoweredSystemPatterns[k])
            THEN <<"System", NineTenths>>
            ELSE by_analysis(analyze_speech_style(text), analyze_keywords(text))
    IN  after_name(by_name({k \in 1..Len(NamePatterns) : contains(text, NamePatterns[k][1])}),
                   lower(text))

\* get_character_avoid_words
get_character_avoid_words(character_type) ==
    LET ks == {k \in 1..Len(CharacterProfiles) :
                  CharacterProfiles[k].character_type = character_type}
    IN  IF ks = {} THEN <<>> ELSE CharacterProfiles[SetMin(ks)].avoid_words

(***************************************************************************)
(* CachedDeepLTranslator over DeepLCache.  The cache is the dict           *)
(* text -> entry (source and target language are always EN and RU, and the *)
(* md5 of the key stands for the key); timestamps are in hours, and the    *)
(* hit/miss counters and the copy of the cache on disk are left out.  The  *)
(* external Translate capability answers a call with Some(translation) or  *)
(* raises (None).                                                          *)
(***************************************************************************)
\* DeepLCache(cache_dir): max_age_hours
MaxAgeHours == 24

\* del d[k]
dict_del(d, k) == SelectSeq(d, LAMBDA e : e[1] # k)

\* DeepLCache._is_expired
is_expired(timestamp) == now > timestamp + MaxAgeHours

\* DeepLCache.get: the cached translation or None, and the cache after the call
cache_get(cache, text) ==
    IF dict_has(cache, text)
    THEN IF ~is_expired(dict_get(cache, text).timestamp)
         THEN [value |-> Some(dict_get(cache, text).translation), cache |-> cache]
         ELSE [value |-> None, cache |-> dict_del(cache, text)]
    ELSE [value |-> None, cache |-> cache]

\* DeepLCache.set
cache_set(cache, text, translation) ==
    dict_set(cache, text, [translation |-> translation, timestamp |-> now])

\* DeepLCache.get_or_translate(text, translate_func): "if
\* cached_translation" takes an empty cached translation for a miss
get_or_translate(cache, text, response) ==
    LET looked_up(got) ==
            IF got.value # None /\ got.value[1] # <<>>
            THEN [text |-> got.value[1], cache |-> got.cache, api |-> "cached"]
            ELSE IF response # None
            THEN [text |-> response[1], cache |-> cache_set(got.cache, text, response[1]),
                  api |-> "ok"]
            ELSE [text |-> text, cache |-> got.cache, api |-> "failed"]
    IN  looked_up(cache_get(cache, text))

\* CachedDeepLTranslator.translate_text(text)
translate_text(cache, translator, text, response) ==
    IF ~translator
    THEN [text |-> text, cache |-> cache, api |-> "no_translator"]
    ELSE get_or_translate(cache, text, response)

(***************************************************************************)
(* ChapterTranslator                                                       *)
(***************************************************************************)
TranslationContext(chapter_number, current_scene, emotional_tone, translation_style) ==
    [chapter_number |-> chapter_number, current_scene |-> current_scene,
     emotional_tone |-> emotional_tone, translation_style |-> translation_style]

TranslationResult(original_text, translated_text, translator, confidence, context_used, memory_hit, quality_score) ==
    [original_text |-> original_text, translated_text |-> translated_text,
     translator |-> translator, confidence |-> confidence, context_used |-> context_used,
     memory_hit |-> memory_hit, quality_score |-> quality_score]

\* len(segments) > 10 selects the batch path
BatchThreshold == 10
\* find_similar's default threshold 0.85 stands for
\* config.TRANSLATION_MEMORY["similarity_threshold"]
SimilarityThreshold == <<17, 20>>
\* find_similar's default max_results
DefaultMaxResults == 5

\* text.replace(old, new) for every <<old, new>> of a dict, in order
RECURSIVE replace_each(_, _)
replace_each(text, pairs) ==
    IF pairs = <<>> THEN text
    ELSE replace_each(replace(text, Head(pairs)[1], Head(pairs)[2]), Tail(pairs))

RECURSIVE glossary_categories(_, _)
glossary_categories(text, glossary) ==
    IF glossary = <<>> THEN text
    ELSE glossary_categories(replace_each(text, Head(glossary)[2]), Tail(glossary))

\* _apply_glossary
apply_glossary(ref, text) ==
    IF ref.glossary_terms = None THEN text
    ELSE glossary_categories(text, ref.glossary_terms[1])

\* TranslationMemoryManager.get_forbidden_words
get_forbidden_words(ref) ==
    IF ref.translation_errors = None THEN <<>>
    ELSE IF ref.translation_errors[1].forbidden_words = None THEN <<>>
    ELSE ref.translation_errors[1].forbidden_words[1]

\* alternatives[word].split(',')[0].strip()
first_alternative(s) ==
    LET i == find(s, <<",">>, 1)
    IN  strip(IF i = 0 THEN s ELSE SubSeq(s, 1, i - 1))

RECURSIVE replace_forbidden(_, _, _)
replace_forbidden(text, words, alternatives) ==
    IF words = <<>> THEN text
    ELSE LET w == Head(words)
         IN  replace_forbidden(
                 IF contains(text, w) /\ dict_has(alternatives, w)
                 THEN replace(text, w, first_alternative(dict_get(alternatives, w)))
                 ELSE text,
                 Tail(words), alternatives)

\* _check_forbidden_words
check_forbidden_words(ref, text) ==
    LET forbidden_words == get_forbidden_words(ref)
        alternatives ==
            IF ref.translation_errors # None
               /\ ref.translation_errors[1].preferred_alternatives # None
            THEN ref.translation_errors[1].preferred_alternatives[1]
            ELSE <<>>
    IN  IF forbidden_words = <<>> THEN text
        ELSE replace_forbidden(text, forbidden_words, alternatives)

RECURSIVE replace_examples(_, _)
replace_examples(text, examples) ==
    IF examples = <<>> THEN text
    ELSE LET e == Head(examples)
         IN  replace_examples(
                 IF contains(lower(text), lower(e[1])) THEN replace(text, e[1], e[2]) ELSE text,
                 Tail(examples))

\* _apply_character_style over get_character_style: contextual_style_rules is
\* keyed by the character type (the key "<type>_thoughts" of the source)
apply_character_style(ref, text, character) ==
    IF ref.contextual_style_rules = None THEN text
    ELSE LET rules == ref.contextual_style_rules[1]
         IN  IF ~dict_has(rules, character) THEN text
             ELSE IF dict_get(rules, character) = None THEN text
             ELSE replace_examples(text, dict_get(rules, character)[1])

\* _find_replacement
Replacements ==
    <<<<<<"s","e","j">>, <<"e","t","o","t">>>>, <<<<"d","a","b","y">>, <<"c","h","t","o","b","y">>>>, <<<<"i","b","o">>, <<"p","o","t","o","m","u"," ","c","h","t","o">>>>,
      <<<<"v","e","s","'","m","a">>, <<"o","c","h","e","n","'">>>>, <<<<"o","t","n","j","u","d","'">>, <<"s","o","v","s","e","m"," ","n","e">>>>>>
find_replacement(word) == IF dict_has(Replacements, word) THEN dict_get(Replacements, word) ELSE word

RECURSIVE replace_avoided(_, _)
replace_avoided(text, words) ==
    IF words = <<>> THEN text
    ELSE LET w == Head(words)
         IN  replace_avoided(IF contains(text, w) THEN replace(text, w, find_replacement(w))
                             ELSE text,
                             Tail(words))

\* _adapt_for_character (the loop over prefer_words changes nothing)
adapt_for_character(text) ==
    LET adapted(d) ==
            IF d[1] # "Unknown" /\ float_gt(d[2], Half)
            THEN replace_avoided(text, get_character_avoid_words(d[1]))
            ELSE text
    IN  adapted(detect_character_from_text(text))

Battle == <<"b","o","e","v","a","j","a">>
Romantic == <<"r","o","m","a","n","t","i","c","h","e","s","k","a","j","a">>
Tense == <<"n","a","p","r","j","a","z","h","e","n","n","y","j">>
Sad == <<"g","r","u","s","t","n","y","j">>

\* _adapt_for_scene
SceneAdaptations ==
    <<<<Battle, <<<<<<"z","a","m","e","d","l","e","n","n","o">>, <<"m","e","d","l","e","n","n","o">>>>, <<<<"o","s","t","o","r","o","z","h","n","o">>, <<"o","s","t","o","r","o","z","h","n","o">>>>>>>>,
      <<Romantic, <<<<<<"g","r","u","b","o">>, <<"n","e","z","h","n","o">>>>, <<<<"r","e","z","k","o">>, <<"m","j","a","g","k","o">>>>>>>>>>
adapt_for_scene(text, scene) ==
    IF dict_has(SceneAdaptations, scene) THEN replace_each(text, dict_get(SceneAdaptations, scene))
    ELSE text

\* _adapt_for_tone
ToneAdaptations ==
    <<<<Tense, <<<<<<"s","p","o","k","o","j","n","o">>, <<"n","a","p","r","j","a","z","h","e","n","n","o">>>>, <<<<"m","e","d","l","e","n","n","o">>, <<"b","y","s","t","r","o">>>>>>>>,
      <<Sad, <<<<<<"r","a","d","o","s","t","n","o">>, <<"g","r","u","s","t","n","o">>>>, <<<<"v","e","s","e","l","o">>, <<"p","e","c","h","a","l","'","n","o">>>>>>>>>>
adapt_for_tone(text, tone) ==
    IF dict_has(ToneAdaptations, tone) THEN replace_each(text, dict_get(ToneAdaptations, tone))
    ELSE text

\* _adapt_translation
adapt_translation(base_translation, segment, context) ==
    LET for_tone(adapted) ==
            IF context.emotional_tone # <<>>
            THEN adapt_for_tone(adapted, context.emotional_tone)
            ELSE adapted
        for_scene(adapted) ==
            for_tone(IF context.current_scene # <<>>
                     THEN adapt_for_scene(adapted, context.current_scene)
                     ELSE adapted)
    IN  for_scene(IF segment.character # None THEN adapt_for_character(base_translation)
                  ELSE base_translation)

Archaisms == <<<<"s","e","j">>, <<"d","a","b","y">>, <<"i","b","o">>, <<"v","e","s","'","m","a">>, <<"o","t","n","j","u","d","'">>>>
NaturalPatterns == <<<<"D","a","j"," ","m","n","e">>, <<"M","o","z","h","e","s","h","'">>, <<"H","o","c","h","u">>, <<"P","o","h","o","z","h","e">>>>

\* a variant of _calculate_quality_score that takes a text of exactly 10
\* characters for a short one
calculate_quality_score_short_at_ten(text) ==
    LET length == IF Len(text) <= 10 THEN -20 ELSE IF Len(text) > 500 THEN -10 ELSE 0
        archaic(text_lower) ==
            Cardinality({k \in 1..Len(Archaisms) : contains(text_lower, Archaisms[k])})
        natural == Cardinality({k \in 1..Len(NaturalPatterns) : contains(text, NaturalPatterns[k])})
        clamp(score) == IF score < 0 THEN 0 ELSE IF score > 100 THEN 100 ELSE score
    IN  clamp(80 + length - 5 * archaic(lower(text)) + 2 * natural)

\* _calculate_quality_score
calculate_quality_score(text) ==
    LET length == IF Len(text) < 10 THEN -20 ELSE IF Len(text) > 500 THEN -10 ELSE 0
        archaic(text_lower) ==
            Cardinality({k \in 1..Len(Archaisms) : contains(text_lower, Archaisms[k])})
        natural == Cardinality({k \in 1..Len(NaturalPatterns) : contains(text, NaturalPatterns[k])})
        clamp(score) == IF score < 0 THEN 0 ELSE IF score > 100 THEN 100 ELSE score
    IN  clamp(80 + length - 5 * archaic(lower(text)) + 2 * natural)

\* the steps of _translate_segment between the base translation and the
\* result text (lines 178-192)
post_process(ref, base_translation, segment, context) ==
    LET styled(checked, character_type) ==
            IF character_type # "Unknown"
            THEN apply_character_style(ref, checked, character_type)
            ELSE checked
    IN  adapt_translation(
            styled(check_forbidden_words(ref, apply_glossary(ref, base_translation)),
                   detect_character_from_text(segment.content)[1]),
            segment, context)

\* f"{segment.content}_{context.translation_style}"
cache_key(content, style) == content \o Underscore \o style

\* a variant of translate_segment that consults the memory before the local
\* cache and the reference base
translate_segment_memory_first(segment, context, tcache, dcache, file, ref, translator, response) ==
    LET content == segment.content
        key == cache_key(content, context.translation_style)
        empty_line ==
            [result |-> TranslationResult(content, <<>>, "Empty_Line", Frac(1, 1),
                                          FALSE, FALSE, 100),
             tcache |-> tcache, dcache |-> dcache,
             lookups |-> <<>>, base |-> None, api |-> "none"]
        cached(cached_result) ==
            [result |-> TranslationResult(content, cached_result.translated_text, "Cache",
                                          Frac(9, 10), TRUE, TRUE, cached_result.quality_score),
             tcache |-> tcache, dcache |-> dcache,
             lookups |-> <<"cache">>, base |-> None, api |-> "none"]
        from_reference(phrase_translation) ==
            [result |-> TranslationResult(content, phrase_translation[1], "Reference_Base",
                                          Frac(1, 1), TRUE, TRUE, 98),
             tcache |-> tcache, dcache |-> dcache,
             lookups |-> <<"cache", "reference">>, base |-> phrase_translation,
             api |-> "none"]
        \* the result built from a base translation, and the cache entry for it
        scored(translator_name, confidence, memory_hit, lookups, base_translation,
               dcache_after, api, adapted_translation, quality_score) ==
            [result |-> TranslationResult(content, adapted_translation, translator_name,
                                          confidence, TRUE, memory_hit, quality_score),
             tcache |-> dict_set(tcache, key, [translated_text |-> adapted_translation,
                                               quality_score |-> quality_score]),
             dcache |-> dcache_after,
             lookups |-> lookups, base |-> Some(base_translation), api |-> api]
        adapted(translator_name, confidence, memory_hit, lookups, base_translation,
                dcache_after, api, adapted_translation) ==
            scored(translator_name, confidence, memory_hit, lookups, base_translation,
                   dcache_after, api, adapted_translation,
                   calculate_quality_score(adapted_translation))
        from_base(translator_name, confidence, memory_hit, lookups, base_translation,
                  dcache_after, api) ==
            adapted(translator_name, confidence, memory_hit, lookups, base_translation,
                    dcache_after, api,
                    post_process(ref, base_translation, segment, context))
        from_memory(best_match) ==
            from_base("Memory+Adaptation", best_match.similarity, TRUE,
                      <<"cache", "reference", "memory">>, best_match.target_text,
                      dcache, "none")
        from_translate(deepl) ==
            from_base("DeepL+Adaptation", Frac(8, 10), FALSE,
                      <<"cache", "reference", "memory", "translate">>, deepl.text,
                      deepl.cache, deepl.api)
        after_memory(phrase_translation) ==
            IF dict_has(tcache, key) THEN cached(dict_get(tcache, key))
            ELSE IF phrase_translation # None /\ phrase_translation[1] # <<>>
            THEN from_reference(phrase_translation)
            ELSE from_translate(translate_text(dcache, translator, content, response))
        memory_first(similar_translations) ==
            IF similar_translations # <<>> THEN from_memory(similar_translations[1])
            ELSE after_memory(get_phrase_translation(ref, content,
                                                     Some(context.chapter_number)))
    IN  IF segment.segment_type = "empty_line" \/ strip(content) = <<>> THEN empty_line
        ELSE memory_first(find_similar(file, content, SimilarityThreshold, DefaultMaxResults))

\* _translate_segment: the result, the two caches after the call, and a
\* record of the call: the sources consulted in order, the base translation
\* a source gave, and what became of the external Translate call
translate_segment(segment, context, tcache, dcache, file, ref, translator, response) ==
    LET content == segment.content
        key == cache_key(content, context.translation_style)
        empty_line ==
            [result |-> TranslationResult(content, <<>>, "Empty_Line", Frac(1, 1),
                                          FALSE, FALSE, 100),
             tcache |-> tcache, dcache |-> dcache,
             lookups |-> <<>>, base |-> None, api |-> "none"]
        cached(cached_result) ==
            [result |-> TranslationResult(content, cached_result.translated_text, "Cache",
                                          Frac(9, 10), TRUE, TRUE, cached_result.quality_score),
             tcache |-> tcache, dcache |-> dcache,
             lookups |-> <<"cache">>, base |-> None, api |-> "none"]
        from_reference(phrase_translation) ==
            [result |-> TranslationResult(content, phrase_translation[1], "Reference_Base",
                                          Frac(1, 1), TRUE, TRUE, 98),
             tcache |-> tcache, dcache |-> dcache,
             lookups |-> <<"cache", "reference">>, base |-> phrase_translation,
             api |-> "none"]
        \* the result built from a base translation, and the cache entry for it
        scored(translator_name, confidence, memory_hit, lookups, base_translation,
               dcache_after, api, adapted_translation, quality_score) ==
            [result |-> TranslationResult(content, adapted_translation, translator_name,
                                          confidence, TRUE, memory_hit, quality_score),
             tcache |-> dict_set(tcache, key, [translated_text |-> adapted_translation,
                                               quality_score |-> quality_score]),
             dcache |-> dcache_after,
             lookups |-> lookups, base |-> Some(base_translation), api |-> api]
        adapted(translator_name, confidence, memory_hit, lookups, base_translation,
                dcache_after, api, adapted_translation) ==
            scored(translator_name, confidence, memory_hit, lookups, base_translation,
                   dcache_after, api, adapted_translation,
                   calculate_quality_score(adapted_translation))
        from_base(translator_name, confidence, memory_hit, lookups, base_translation,
                  dcache_after, api) ==
            adapted(translator_name, confidence, memory_hit, lookups, base_translation,
                    dcache_after, api,
                    post_process(ref, base_translation, segment, context))
        from_memory(best_match) ==
            from_base("Memory+Adaptation", best_match.similarity, TRUE,
                      <<"cache", "reference", "memory">>, best_match.target_text,
                      dcache, "none")
        from_translate(deepl) ==
            from_base("DeepL+Adaptation", Frac(8, 10), FALSE,
                      <<"cache", "reference", "memory", "translate">>, deepl.text,
                      deepl.cache, deepl.api)
        after_reference(similar_translations) ==
            IF similar_translations # <<>> THEN from_memory(similar_translations[1])
            ELSE from_translate(translate_text(dcache, translator, content, response))
        after_cache(phrase_translation) ==
            IF phrase_translation # None /\ phrase_translation[1] # <<>>
            THEN from_reference(phrase_translation)
            ELSE after_reference(find_similar(file, content, SimilarityThreshold,
                                              DefaultMaxResults))
    IN  IF segment.segment_type = "empty_line" \/ strip(content) = <<>> THEN empty_line
        ELSE IF dict_has(tcache, key) THEN cached(dict_get(tcache, key))
        ELSE after_cache(get_phrase_translation(ref, content, Some(context.chapter_number)))

\* _save_to_memory: the file after add_translation and the id it returned
save_to_memory(file, segment, result, context) ==
    add_translation(file,
        TranslationMemory(segment.content, result.translated_text, context.chapter_number,
                          segment.character, Some(context.current_scene),
                          Some(result.quality_score)))

\* the indices from which flags holds, in order
RECURSIVE select_indices(_, _)
select_indices(flags, from) ==
    IF from > Len(flags) THEN <<>>
    ELSE (IF flags[from] THEN <<from>> ELSE <<>>) \o select_indices(flags, from + 1)

\* the order in which _translate_segments_batch visits the segments: the
\* dialogue group, the system group, then the others
batch_order(segs) ==
    LET dialogue_segments == [i \in 1..Len(segs) |-> segs[i].is_dialogue]
        system_segments == [i \in 1..Len(segs) |-> segs[i].is_system]
        other_segments == [i \in 1..Len(segs) |-> ~segs[i].is_dialogue /\ ~segs[i].is_system]
    IN  select_indices(dialogue_segments, 1) \o select_indices(system_segments, 1)
        \o select_indices(other_segments, 1)

\* the order in which translate_with_context visits the segments
visit_order(segs) ==
    IF Len(segs) > BatchThreshold THEN batch_order(segs)
    ELSE [i \in 1..Len(segs) |-> i]

(***************************************************************************)
(* The memory store on its own: any sequence of add_translation and        *)
(* find_similar calls.                                                     *)
(***************************************************************************)
MaxAdds == 3
MaxResults == 2

Chapter1 == <<"1">>
Chapter2 == <<"2">>

StoreRecords ==
    {TranslationMemory(<<"a"," ","b">>, <<"x">>, Chapter1, None, None, None),
     TranslationMemory(<<"a"," ","b">>, <<"y">>, Chapter1, None, None, None),
     TranslationMemory(<<"a"," ","b">>, <<"x">>, Chapter2, None, None, None),
     TranslationMemory(<<"B"," ","a">>, <<"y">>, Chapter1, None, None, None),
     TranslationMemory(<<"a">>, <<"x">>, Chapter1, None, None, None),
     TranslationMemory(<<>>, <<"x">>, Chapter1, None, None, None)}

QueryTexts == {<<"a"," ","b">>, <<"a">>, <<"c">>, <<>>}
Thresholds == {<<0, 1>>, <<1, 2>>, <<1, 1>>}

EmptyList == [kind |-> "list", data |-> <<>>]
JsonObject == [kind |-> "dict", data |-> <<>>]

InitStore ==
    /\ memory_file \in {EmptyList, JsonObject}
    /\ reference_data = NoReference
    /\ phrase_cache = <<>>
    /\ add_calls = 0
    /\ last_add = None
    /\ last_find = None
    /\ last_lookup = None
    /\ collection = None
    /\ last_call = None
    /\ TranslatorIdle
    /\ AsyncIdle
    /\ now = 0

\* manager.add_translation(memory); the record of the last query is dropped,
\* it described the store before this call
AddTranslation ==
    /\ add_calls < MaxAdds
    /\ \E memory \in StoreRecords :
          LET r == add_translation(memory_file, memory)
          IN  /\ memory_file' = r.file
              /\ last_add' = Some([memory |-> memory, id |-> r.id])
    /\ add_calls' = add_calls + 1
    /\ last_find' = None
    /\ UNCHANGED <<async_vars, now, collection, last_call, reference_data, phrase_cache, last_lookup, translator_vars>>

\* manager.find_similar(text, threshold, max_results).  The call changes
\* nothing in the store, so one query is recorded per store content.
FindSimilar ==
    /\ last_find = None
    /\ \E text \in QueryTexts, threshold \in Thresholds, max_results \in 1..MaxResults :
          last_find' = Some([text |-> text, threshold |-> threshold,
                             max_results |-> max_results,
                             result |-> find_similar(memory_file, text, threshold, max_results)])
    /\ UNCHANGED <<async_vars, now, collection, last_call, memory_file, reference_data, phrase_cache, add_calls, last_add,
                   last_lookup, translator_vars>>

NextStore == AddTranslation \/ FindSimilar

SpecStore == InitStore /\ [][NextStore]_vars

\* C7: after any sequence of add_translation calls the store holds at most
\* one record per (source text, chapter), and the record of the key added
\* last carries the target text of that last call.
C7_OneRecordPerKey ==
    LET data == memory_file.data
    IN  /\ \A i, j \in 1..Len(data) :
              (data[i].source_text = data[j].source_text /\ data[i].chapter = data[j].chapter)
                  => i = j
        /\ (last_add # None /\ last_add[1].id # <<>>)
              => \A i \in 1..Len(data) :
                    (/\ data[i].source_text = last_add[1].memory.source_text
                     /\ data[i].chapter = last_add[1].memory.chapter)
                        => data[i].target_text = last_add[1].memory.target_text

\* the lowercased whitespace-split word set of a text
words_of(text) == word_set(lower(text))

\* C8 as stated: once a record with source text s is inserted,
\* find_similar(s, 1.0) returns it first, with similarity 1.0.
C8_InsertedFoundFirst ==
    (/\ last_find # None /\ last_add # None
     /\ last_add[1].id # <<>>
     /\ last_find[1].text = last_add[1].memory.source_text
     /\ last_find[1].threshold = Frac(1, 1))
        => /\ last_find[1].result # <<>>
           /\ last_find[1].result[1] = similar_entry(last_add[1].memory, Frac(1, 1))

\* the stored records whose word set is that of the text
same_words(text) ==
    {i \in 1..Len(memory_file.data) :
        words_of(memory_file.data[i].source_text) = words_of(text)}

\* C8, amended: when a record with source text s of at least one word is in
\* the store, find_similar(s, 1.0) returns a non-empty list whose first
\* result has similarity 1.0 and is the earliest inserted record whose
\* lowercased word set equals that of s.
C8_EarliestSameWordsFirst ==
    (/\ last_find # None
     /\ last_find[1].threshold = Frac(1, 1)
     /\ words_of(last_find[1].text) # {}
     /\ \E i \in 1..Len(memory_file.data) :
            memory_file.data[i].source_text = last_find[1].text)
        => /\ last_find[1].result # <<>>
           /\ last_find[1].result[1] =
                  similar_entry(memory_file.data[SetMin(same_words(last_find[1].text))],
                                Frac(1, 1))

\* C8 witness: the queried text was inserted last and an earlier record with
\* another source text and the same words comes first
C8_Witness ==
    /\ last_find # None /\ last_add # None
    /\ last_find[1].threshold = Frac(1, 1)
    /\ last_find[1].text = last_add[1].memory.source_text
    /\ last_find[1].result # <<>>
    /\ last_find[1].result[1].source_text # last_find[1].text

\* the Jaccard index of the word sets of the query and of stored record i
jaccard(text, i) ==
    LET a == words_of(text)
        b == words_of(memory_file.data[i].source_text)
    IN  Frac(Cardinality(a \cap b), Cardinality(a \cup b))

\* stored record i ranks before stored record j for the query: greater
\* similarity, or equal similarity and inserted earlier
ranks_before(text, i, j) ==
    \/ ~frac_ge(jaccard(text, j), jaccard(text, i))
    \/ (jaccard(text, i) = jaccard(text, j) /\ i < j)

\* the result of the last query is a ranked selection of the eligible
\* records: at most max_results of them, each with its Jaccard similarity,
\* in rank order, and no eligible record ranking before a returned one is
\* left out
ranked_selection(eligible) ==
    LET q == last_find[1]
        r == q.result
    IN  /\ Len(r) <= q.max_results
        /\ \E idx \in [1..Len(r) -> eligible] :
              /\ \A k \in 1..Len(r) :
                    r[k] = similar_entry(memory_file.data[idx[k]], jaccard(q.text, idx[k]))
              /\ \A k, l \in 1..Len(r) : k < l => ranks_before(q.text, idx[k], idx[l])
              /\ \A e \in eligible \ {idx[k] : k \in 1..Len(r)} :
                    \A k \in 1..Len(r) : ranks_before(q.text, idx[k], e)

\* the stored records whose Jaccard index with the query is defined and at
\* least the threshold
jaccard_eligible ==
    {i \in 1..Len(memory_file.data) :
        /\ words_of(last_find[1].text) \cup words_of(memory_file.data[i].source_text) # {}
        /\ frac_ge(jaccard(last_find[1].text, i), last_find[1].threshold)}

\* C9 as stated: find_similar returns at most max_results records, each with
\* a Jaccard similarity of at least the threshold, by descending similarity
\* and insertion order among equals, and leaves out no record of similarity
\* at least the threshold that ranks before a returned one.
C9_RankedByJaccard == last_find # None => ranked_selection(jaccard_eligible)

\* the stored records that have a word, when the query has one, and whose
\* Jaccard index with the query is at least the threshold
worded_eligible ==
    {i \in 1..Len(memory_file.data) :
        /\ words_of(last_find[1].text) # {}
        /\ words_of(memory_file.data[i].source_text) # {}
        /\ frac_ge(jaccard(last_find[1].text, i), last_find[1].threshold)}

\* C9, amended: the same ranked selection, taken over the stored records
\* that have at least one word, for a query that has at least one word; a
\* record or a query without words matches nothing.
C9_RankedAmongWorded == last_find # None => ranked_selection(worded_eligible)

\* C9 witness: the result is cut at max_results, more records were eligible,
\* and two returned records tie
C9_Witness ==
    /\ last_find # None
    /\ Len(last_find[1].result) = 2
    /\ last_find[1].max_results = 2
    /\ Cardinality(worded_eligible) > 2
    /\ last_find[1].result[1].similarity = last_find[1].result[2].similarity
    /\ last_find[1].result[1].target_text # last_find[1].result[2].target_text

(***************************************************************************)
(* The reference base on its own: phrase lookups against every small       *)
(* phrase_translations object.                                             *)
(***************************************************************************)
RefPhrases == {<<"a"," ","b">>, <<"a">>}
RefTranslations == {<<"x">>, <<"y">>, <<>>}

\* the JSON objects {phrase: translation} over RefPhrases, in every key order
PhraseDicts ==
    {<<>>}
    \cup {<<<<p, t>>>> : p \in RefPhrases, t \in RefTranslations}
    \cup {<<<<pq[1], t>>, <<pq[2], u>>>> :
              pq \in {x \in RefPhrases \X RefPhrases : x[1] # x[2]},
              t \in RefTranslations, u \in RefTranslations}

RefPool ==
    {ReferenceData(Some(<<<<ce[1], d>>, <<ce[2], f>>>>), None, None, None) :
        ce \in {<<Chapter1, Chapter2>>, <<Chapter2, Chapter1>>},
        d \in PhraseDicts, f \in PhraseDicts}

LookupTexts == {<<"a"," ","b">>, <<"a">>, <<"A"," ","B">>}
LookupChapters == {None, Some(Chapter1), Some(Chapter2)}

InitRef ==
    /\ memory_file = JsonObject
    /\ reference_data \in RefPool
    /\ phrase_cache = preload_phrase_cache(reference_data)
    /\ add_calls = 0
    /\ last_add = None
    /\ last_find = None
    /\ last_lookup = None
    /\ collection = None
    /\ last_call = None
    /\ TranslatorIdle
    /\ AsyncIdle
    /\ now = 0

\* get_phrase_translation(text, chapter) on both managers
GetPhraseTranslation ==
    /\ \E text \in LookupTexts, chapter \in LookupChapters :
          LET o == optimized_get_phrase_translation(phrase_cache, reference_data, text, chapter)
          IN  /\ last_lookup' = Some([text |-> text, chapter |-> chapter,
                                      result |-> get_phrase_translation(reference_data, text, chapter),
                                      optimized |-> o.result])
              /\ phrase_cache' = o.cache
    /\ UNCHANGED <<async_vars, now, collection, last_call, memory_file, reference_data, add_calls, last_add, last_find, translator_vars>>

NextRef == GetPhraseTranslation

SpecRef == InitRef /\ [][NextRef]_vars

\* C10: get_phrase_translation(text, chapter) returns the given chapter's
\* translation whenever the given chapter holds the phrase, on both managers.
C10_GivenChapterFirst ==
    last_lookup # None =>
        LET q == last_lookup[1]
            pt == reference_data.phrase_translations[1]
        IN  \A i \in 1..Len(pt) :
                (/\ q.chapter = Some(pt[i][1])
                 /\ dict_has(pt[i][2], q.text))
                    => /\ q.result = Some(dict_get(pt[i][2], q.text))
                       /\ q.optimized = Some(dict_get(pt[i][2], q.text))

(***************************************************************************)
(* The Resolver: one translate_with_context run over a chapter text.       *)
(***************************************************************************)
MaxPrefix == 2

ModernWebNovel == <<"m","o","d","e","r","n","_","w","e","b","_","n","o","v","e","l">>

\* the lines a chapter text is made of
LinePool == {<<>>, <<"a"," ","b">>, <<"b"," ","a">>, <<"\"","a","\"">>, <<"D","i","n","g","!">>}
FillerLine == <<"c">>

\* every sequence over S of length at most n
RECURSIVE SeqsUpTo(_, _)
SeqsUpTo(S, n) ==
    IF n = 0 THEN {<<>>}
    ELSE LET shorter == SeqsUpTo(S, n - 1)
         IN  shorter \cup {Append(s, x) : s \in {t \in shorter : Len(t) = n - 1}, x \in S}

\* chapter texts, joined by newlines: up to MaxPrefix lines, or up to MaxPrefix
\* lines followed by BatchThreshold filler lines (the batch path)
BatchLinePool == {<<>>, <<"a"," ","b">>, <<"\"","a","\"">>, <<"\"","D","i","n","g","!","\"">>}
TextPool ==
    {join(prefix, <<"\n">>) : prefix \in SeqsUpTo(LinePool, MaxPrefix)}
    \cup {join(prefix \o [i \in 1..BatchThreshold |-> FillerLine], <<"\n">>) :
              prefix \in SeqsUpTo(BatchLinePool, MaxPrefix)}

ContextPool ==
    {TranslationContext(Chapter1, Battle, Tense, ModernWebNovel),
     TranslationContext(Chapter1, <<>>, <<>>, ModernWebNovel)}

\* what the external Translate capability may answer: a translation, or an
\* exception (None)
ApiResponses == {None, Some(<<"Q","i"," ","v","e","s","'","m","a"," ","z","a","m","e","d","l","e","n","n","o">>)}

\* a reference base: translation_memory.json as a JSON object
ReferenceBase ==
    ReferenceData(
        Some(<<<<Chapter1, <<<<<<"a"," ","b">>, <<"v","e","s","'","m","a"," ","x">>>>>>>>>>),
        Some(<<<<<<"c","u","l","t","i","v","a","t","i","o","n">>, <<<<<<"Q","i">>, <<"c","i">>>>>>>>>>),
        Some([forbidden_words |-> Some(<<<<"v","e","s","'","m","a">>>>),
              preferred_alternatives |-> Some(<<<<<<"v","e","s","'","m","a">>, <<"o","c","h","e","n","'",","," ","k","r","a","j","n","e">>>>>>)]),
        Some(<<<<"System", Some(<<<<<<"Q","i">>, <<"e","n","e","r","g","i","j","a">>>>>>)>>>>))

InitTranslator ==
    /\ memory_file \in {EmptyList, JsonObject}
    /\ reference_data = IF memory_file = JsonObject THEN ReferenceBase ELSE NoReference
    /\ phrase_cache = <<>>
    /\ add_calls = 0
    /\ last_add = None
    /\ last_find = None
    /\ last_lookup = None
    /\ collection = None
    /\ last_call = None
    /\ has_translator \in BOOLEAN
    /\ pc = "idle"
    /\ run_text = <<>>
    /\ run_context = None
    /\ segments = <<>>
    /\ order = <<>>
    /\ results = <<>>
    /\ calls = <<>>
    /\ translation_cache = <<>>
    /\ deepl_cache = <<>>
    /\ AsyncIdle
    /\ now = 0

\* translate_with_context up to the first loop iteration: split the text and
\* take the sequential or the batch path
TranslateWithContext ==
    /\ pc = "idle"
    /\ \E t \in TextPool, c \in ContextPool :
          /\ run_text' = t
          /\ run_context' = Some(c)
          /\ segments' = split_by_lines(t)
          /\ order' = visit_order(split_by_lines(t))
    /\ results' = <<>>
    /\ calls' = <<>>
    /\ pc' = "translating"
    /\ UNCHANGED <<async_vars, now, collection, last_call, memory_file, reference_data, phrase_cache, add_calls, last_add, last_find,
                   last_lookup, has_translator, translation_cache, deepl_cache>>

\* what one _translate_segment call may return: the external Translate call,
\* when the segment reaches it, answers with any of ApiResponses
segment_outcomes(segment, context, tcache, dcache, file, ref, translator) ==
    LET outcomes(on_failure) ==
            IF on_failure.api = "failed"
            THEN {on_failure} \cup
                 {translate_segment(segment, context, tcache, dcache, file, ref,
                                    translator, response) : response \in ApiResponses}
            ELSE {on_failure}
    IN  outcomes(translate_segment(segment, context, tcache, dcache, file, ref,
                                   translator, None))

\* one loop iteration of translate_with_context or _translate_segments_batch:
\* _translate_segment, results.append, _save_to_memory
ResolveSegment ==
    /\ pc = "translating"
    /\ Len(results) < Len(order)
    /\ \E r \in segment_outcomes(segments[order[Len(results) + 1]], run_context[1],
                                  translation_cache, deepl_cache, memory_file,
                                  reference_data, has_translator) :
          LET index == order[Len(results) + 1]
              segment == segments[index]
              saved == save_to_memory(memory_file, segment, r.result, run_context[1])
          IN  /\ results' = Append(results, r.result)
              /\ calls' = Append(calls, [segment |-> index, lookups |-> r.lookups,
                                         base |-> r.base, api |-> r.api,
                                         saved |-> saved.id])
              /\ translation_cache' = r.tcache
              /\ deepl_cache' = r.dcache
              /\ memory_file' = saved.file
              /\ last_add' = Some([memory |->
                                       TranslationMemory(segment.content,
                                           r.result.translated_text,
                                           run_context[1].chapter_number, segment.character,
                                           Some(run_context[1].current_scene),
                                           Some(r.result.quality_score)),
                                   id |-> saved.id])
    /\ add_calls' = add_calls + 1
    /\ UNCHANGED <<async_vars, now, collection, last_call, reference_data, phrase_cache, last_find, last_lookup, has_translator, pc,
                   run_text, run_context, segments, order>>

\* return results
Return ==
    /\ pc = "translating"
    /\ Len(results) = Len(order)
    /\ pc' = "done"
    /\ UNCHANGED <<async_vars, now, collection, last_call, memory_file, reference_data, phrase_cache, add_calls, last_add, last_find,
                   last_lookup, has_translator, run_text, run_context, segments, order, results, calls,
                   translation_cache, deepl_cache>>

Next == TranslateWithContext \/ ResolveSegment \/ Return

Spec == InitTranslator /\ [][Next]_vars


(***************************************************************************)
(* Resolution of one segment, as the store, the caches and the reference   *)
(* base stand before the call                                               *)
(***************************************************************************)
ResolutionOrder == <<"cache", "reference", "memory", "translate">>

\* the segment the next loop iteration resolves
next_segment == segments[order[Len(results) + 1]]

\* how many sources the resolution order has to go through for the next
\* segment: up to the first that holds it, all four when none does
sources_needed ==
    LET content == next_segment.content
        phrase == get_phrase_translation(reference_data, content,
                                         Some(run_context[1].chapter_number))
    IN  IF dict_has(translation_cache, cache_key(content, run_context[1].translation_style))
        THEN 1
        ELSE IF phrase # None /\ phrase[1] # <<>> THEN 2
        ELSE IF find_similar(memory_file, content, SimilarityThreshold, DefaultMaxResults) # <<>>
        THEN 3
        ELSE 4

SourceNames == <<"Cache", "Reference_Base", "Memory+Adaptation", "DeepL+Adaptation">>

\* C1: _translate_segment consults cache, reference base, memory and the
\* external Translate in that order and stops at the first hit: the sources
\* consulted for a non-empty segment are the resolution order up to the first
\* source that holds it, the result comes from that source, find_similar is
\* called only after a cache miss and a reference-base miss, and Translate
\* only after all three missed.
C1_ResolutionOrder ==
    [][(pc = "translating" /\ Len(results') = Len(results) + 1
        /\ strip(next_segment.content) # <<>>)
          => LET call == calls'[Len(calls')]
                 result == results'[Len(results')]
                 stops_at(n) ==
                     /\ call.lookups = SubSeq(ResolutionOrder, 1, n)
                     /\ result.translator = SourceNames[n]
                     /\ call.api \in {"ok", "failed"} => n = 4
                     /\ n < 4 => call.api = "none"
             IN  stops_at(sources_needed)]_vars

\* C1 witness: in one run a segment reached the external Translate and a
\* later one stopped at the memory
C1_Witness ==
    /\ \E k \in 1..Len(calls) : calls[k].api = "ok"
    /\ \E k \in 1..Len(calls) : calls[k].lookups = <<"cache", "reference", "memory">>

\* C2: translate_with_context returns one result per segment of
\* split_by_lines(text), in input order.
C2_ResultsInInputOrder ==
    pc = "done" =>
        /\ Len(results) = Len(segments)
        /\ \A i \in 1..Len(results) : results[i].original_text = segments[i].content

\* C3: whenever a base translation comes from the reference base, the memory
\* or the external Translate, the returned text is that base after glossary,
\* forbidden-word, character-style and scene/tone substitution, in that
\* order.
C3_BaseIsPostProcessed ==
    \A k \in 1..Len(calls) :
        calls[k].base # None
            => results[k].translated_text =
                   post_process(reference_data, calls[k].base[1],
                                segments[calls[k].segment], run_context[1])

\* C4: a failed external Translate gives an error-tagged result with empty
\* translated text and confidence 0, not a normal result.
C4_FailureIsErrorTagged ==
    \A k \in 1..Len(calls) :
        calls[k].api = "failed"
            => /\ results[k].translated_text = <<>>
               /\ results[k].confidence = Frac(0, 1)
               /\ results[k].translator # "DeepL+Adaptation"

\* C5: with a writable store, after translate_with_context every non-empty
\* segment resolved from the reference base, the memory or Translate has
\* been written by add_translation, and no segment resolved from the local
\* cache has.
C5_CacheHitsNotWritten ==
    (pc = "done" /\ memory_file.kind = "list") =>
        \A k \in 1..Len(calls) :
            /\ results[k].translator
                   \in {"Reference_Base", "Memory+Adaptation", "DeepL+Adaptation"}
                   => calls[k].saved # <<>>
            /\ results[k].translator = "Cache" => calls[k].saved = <<>>

\* C6: an empty-line segment is passed through: empty translated text,
\* confidence 1.0, no lookup, and no record written to the store.
C6_EmptyLinePassedThrough ==
    \A k \in 1..Len(calls) :
        segments[calls[k].segment].segment_type = "empty_line"
            => /\ results[k].translated_text = <<>>
               /\ results[k].confidence = Frac(1, 1)
               /\ calls[k].lookups = <<>>
               /\ calls[k].api = "none"
               /\ calls[k].saved = <<>>

(***************************************************************************)
(* Claims on the reference-base phrase lookup (SpecRef).                   *)
(***************************************************************************)
stored_phrases(ref) ==
    LET pt == ref.phrase_translations[1]
    IN  {pt[p[1]][2][p[2]][1] : p \in phrase_positions(pt)}

\* C11: get_phrase_translation returns a translation only when the query
\* text equals a stored phrase key; a text equal to no stored phrase is
\* answered not-found.
C11_ExactPhraseOnly ==
    last_lookup # None =>
        LET q == last_lookup[1]
        IN  q.result # None => q.text \in stored_phrases(reference_data)

(***************************************************************************)
(* TranslationMemoryManager with the ChromaDB backend.  ChromaDB is an     *)
(* external package: its collection is the sequence of the records added,  *)
(* a call of it may raise, and the distances and the ranking a query       *)
(* returns are chosen by its index (the record whose document is the query *)
(* text is at distance 0).                                                 *)
(***************************************************************************)
\* self.memory_file when _initialize_file_system never ran: the attribute
\* does not exist and every use of it raises AttributeError
NoMemoryFile == [kind |-> "unset", data |-> <<>>]

\* dict.get(key, default)
dict_get_default(d, k, default) == IF dict_has(d, k) THEN dict_get(d, k) ELSE default

\* collection.add(documents=[document], metadatas=[metadata], ids=[id]): a
\* record whose id is already stored is not stored again
collection_add(records, id, document, metadata) ==
    IF \E i \in 1..Len(records) : records[i].id = id THEN records
    ELSE Append(records, [id |-> id, document |-> document, metadata |-> metadata])

\* _add_to_chromadb: the collection, the file and the returned id after the
\* call; raises tells whether collection.add raised
add_to_chromadb(records, file, memory, raises) ==
    LET id == memory_id(memory.source_text, memory.chapter)
        metadata ==
            <<<<"chapter", memory.chapter>>,
              <<"character", IF memory.character = None THEN <<>> ELSE memory.character[1]>>,
              <<"context", IF memory.context = None THEN <<>> ELSE memory.context[1]>>,
              <<"quality_score", IF memory.quality_score = None THEN <<0, 1>> ELSE memory.quality_score[1]>>>>
    IN  IF raises
        THEN LET r == add_to_file_system(file, memory)
             IN  [records |-> records, file |-> r.file, id |-> r.id]
        ELSE [records |-> collection_add(records, id, memory.source_text, metadata),
              file |-> file, id |-> id]

\* similarity = 1.0 - distance
similarity_of(distance) == Frac(distance[2] - distance[1], distance[2])

\* the loop of _find_similar_chromadb over the hits from.. of the query;
\* ranking[k] is the record at rank k and distance[i] the distance of record i
RECURSIVE collect_chromadb(_, _, _, _, _)
collect_chromadb(records, ranking, distance, threshold, from) ==
    IF from > Len(ranking) THEN <<>>
    ELSE LET doc == records[ranking[from]].document
             metadata == records[ranking[from]].metadata
             entry(similarity) ==
                 IF frac_ge(similarity, threshold)
                 THEN <<[source_text |-> doc,
                         target_text |-> dict_get_default(metadata, "target_text", <<>>),
                         chapter |-> dict_get_default(metadata, "chapter", <<>>),
                         character |-> dict_get_default(metadata, "character", <<>>),
                         similarity |-> similarity,
                         context |-> dict_get_default(metadata, "context", <<>>)]>>
                 ELSE <<>>
         IN  entry(similarity_of(distance[ranking[from]]))
             \o collect_chromadb(records, ranking, distance, threshold, from + 1)

\* _find_similar_chromadb; raises tells whether collection.query raised.  The
\* query returns the n_results = max_results nearest records, nearest first.
find_similar_chromadb(records, text, threshold, max_results, raises, ranking, distance) ==
    IF raises THEN <<>>
    ELSE collect_chromadb(records, take(ranking, max_results), distance, threshold, 1)

(***************************************************************************)
(* The store with either backend: add_translation and find_similar.        *)
(***************************************************************************)
ChromaRecords ==
    {TranslationMemory(<<"a"," ","b">>, <<"x">>, Chapter1, None, None, None),
     TranslationMemory(<<"a"," ","b">>, <<"y">>, Chapter1, None, None, None),
     TranslationMemory(<<"a">>, <<"x">>, Chapter2, Some(<<"S","y","s","t","e","m">>), None, Some(<<9, 10>>))}

\* the distances the index may report for a record whose document is not the
\* query text
Distances == {<<1, 4>>, <<1, 1>>}

\* the distance functions of a query for text
distances_of(records, text) ==
    {d \in [1..Len(records) -> Distances \cup {<<0, 1>>}] :
        \A i \in 1..Len(records) : (d[i] = <<0, 1>>) <=> (records[i].document = text)}

\* the rankings of the records that put nearer records first
rankings_of(records, distance) ==
    {r \in [1..Len(records) -> 1..Len(records)] :
        /\ \A i, j \in 1..Len(records) : i # j => r[i] # r[j]
        /\ \A i, j \in 1..Len(records) : i < j => frac_ge(distance[r[j]], distance[r[i]])}

\* __init__: ChromaDB initialised (the collection is empty, memory_file is
\* never set), or the file backend initialised (ChromaDB absent or failing)
InitChroma ==
    /\ \/ collection = Some(<<>>) /\ memory_file = NoMemoryFile
       \/ collection = None /\ memory_file = EmptyList
    /\ reference_data = NoReference
    /\ phrase_cache = <<>>
    /\ add_calls = 0
    /\ last_add = None
    /\ last_find = None
    /\ last_lookup = None
    /\ last_call = None
    /\ TranslatorIdle
    /\ AsyncIdle
    /\ now = 0

\* manager.add_translation(memory) with its dispatch on self.collection
ChromaAddTranslation ==
    /\ add_calls < MaxAdds
    /\ \E memory \in ChromaRecords, raises \in BOOLEAN :
          IF collection # None
          THEN LET r == add_to_chromadb(collection[1], memory_file, memory, raises)
               IN  /\ collection' = Some(r.records)
                   /\ memory_file' = r.file
                   /\ last_add' = Some([memory |-> memory, id |-> r.id, raised |-> raises])
          ELSE LET r == add_to_file_system(memory_file, memory)
               IN  /\ ~raises
                   /\ collection' = collection
                   /\ memory_file' = r.file
                   /\ last_add' = Some([memory |-> memory, id |-> r.id, raised |-> FALSE])
    /\ add_calls' = add_calls + 1
    /\ last_find' = None
    /\ UNCHANGED <<async_vars, now, reference_data, phrase_cache, last_lookup, last_call, translator_vars>>

\* manager.find_similar(text, threshold, max_results) with its dispatch on
\* self.collection; one query is recorded per store content
ChromaFindSimilar ==
    /\ last_find = None
    /\ \E text \in QueryTexts, threshold \in Thresholds, max_results \in 1..MaxResults :
          IF collection # None
          THEN \E raises \in BOOLEAN, distance \in distances_of(collection[1], text) :
                  \E ranking \in rankings_of(collection[1], distance) :
                      last_find' = Some([text |-> text, threshold |-> threshold,
                                         max_results |-> max_results, raised |-> raises,
                                         result |-> find_similar_chromadb(collection[1], text,
                                                        threshold, max_results, raises,
                                                        ranking, distance)])
          ELSE last_find' = Some([text |-> text, threshold |-> threshold,
                                  max_results |-> max_results, raised |-> FALSE,
                                  result |-> find_similar_file_system(memory_file, text,
                                                 threshold, max_results)])
    /\ UNCHANGED <<async_vars, now, collection, memory_file, reference_data, phrase_cache, add_calls, last_add,
                   last_lookup, last_call, translator_vars>>

NextChroma == ChromaAddTranslation \/ ChromaFindSimilar

SpecChroma == InitChroma /\ [][NextChroma]_vars

\* C12: when the ChromaDB call inside add_translation raises, the record is
\* stored in the file backend and its id is returned; when the ChromaDB call
\* inside find_similar raises, the result is the file backend's result for
\* the same query.
C12_ChromaFailureServedByFile ==
    /\ (last_add # None /\ last_add[1].raised) =>
           LET memory == last_add[1].memory
               id == memory_id(memory.source_text, memory.chapter)
           IN  /\ last_add[1].id = id
               /\ memory_file.kind = "list"
               /\ \E i \in 1..Len(memory_file.data) :
                      /\ memory_file.data[i].id = id
                      /\ memory_file.data[i].target_text = memory.target_text
    /\ (last_find # None /\ last_find[1].raised) =>
           LET q == last_find[1]
           IN  q.result = find_similar_file_system(memory_file, q.text, q.threshold, q.max_results)

\* C13: after add_translation(r) with a non-empty source text, find_similar
\* of r's source text with a threshold of at most 1 returns an entry for r
\* that carries r's target text, whichever backend is active.
C13_BackendsSameContract ==
    (/\ last_add # None /\ last_find # None
     /\ ~last_add[1].raised /\ ~last_find[1].raised
     /\ last_add[1].memory.source_text # <<>>
     /\ last_find[1].text = last_add[1].memory.source_text
     /\ frac_ge(<<1, 1>>, last_find[1].threshold))
        => LET r == last_add[1].memory
               result == last_find[1].result
           IN  \E i \in 1..Len(result) :
                   /\ result[i].source_text = r.source_text
                   /\ result[i].chapter = r.chapter
                   /\ result[i].target_text = r.target_text

(***************************************************************************)
(* ChapterSplitter, paragraph mode and translation units                   *)
(***************************************************************************)
\* re.search(pattern, text, re.IGNORECASE) over system_patterns
matches_system_ignorecase(text) ==
    \E k \in 1..Len(SplitterSystemPatterns) :
        contains(lower(text), lower(SplitterSystemPatterns[k]))

\* _analyze_segment: the system check runs after the dialogue check and
\* overwrites segment_type
analyze_segment(text, line_number) ==
    LET is_dialogue == matches_dialogue(text)
        is_system == matches_system_ignorecase(text)
    IN  TextSegment(text,
                    IF is_system THEN "system"
                    ELSE IF is_dialogue THEN "dialogue"
                    ELSE "description",
                    line_number, detect_character(text), is_dialogue, is_system)

\* the loop of create_segments from line i on, and the code after the loop
RECURSIVE create_segments_from(_, _, _, _, _)
create_segments_from(lines, i, current_paragraph, paragraph_start_line, segment_list) ==
    LET closed == IF current_paragraph # <<>>
                  THEN Append(segment_list, analyze_segment(join(current_paragraph, <<"\n">>),
                                                        paragraph_start_line))
                  ELSE segment_list
    IN  IF i > Len(lines) THEN closed
        ELSE IF strip(lines[i]) = <<>>
        THEN create_segments_from(lines, i + 1, <<>>, paragraph_start_line, closed)
        ELSE create_segments_from(lines, i + 1, Append(current_paragraph, strip(lines[i])),
                                  IF current_paragraph = <<>> THEN i ELSE paragraph_start_line,
                                  segment_list)

\* create_segments
create_segments(text) == create_segments_from(split_lines(text), 1, <<>>, 1, <<>>)

\* one element of translation_units
translation_unit(current_unit, current_length) ==
    [segments |-> current_unit,
     total_length |-> current_length,
     text |-> join([k \in 1..Len(current_unit) |-> current_unit[k].content], <<"\n", "\n">>)]

\* a variant of split_units that also closes the unit when the next segment
\* fills it exactly to max_length
RECURSIVE split_units_closing_at_limit(_, _, _, _, _)
split_units_closing_at_limit(segment_list, max_length, from, current_unit, current_length) ==
    IF from > Len(segment_list)
    THEN IF current_unit # <<>> THEN <<translation_unit(current_unit, current_length)>> ELSE <<>>
    ELSE IF current_length + Len(segment_list[from].content) >= max_length /\ current_unit # <<>>
    THEN <<translation_unit(current_unit, current_length)>>
         \o split_units_closing_at_limit(segment_list, max_length, from + 1, <<segment_list[from]>>,
                                         Len(segment_list[from].content))
    ELSE split_units_closing_at_limit(segment_list, max_length, from + 1,
                                      Append(current_unit, segment_list[from]),
                                      current_length + Len(segment_list[from].content))

\* the loop of split_for_translation from segment from on, and the code
\* after the loop
RECURSIVE split_units(_, _, _, _, _)
split_units(segment_list, max_length, from, current_unit, current_length) ==
    IF from > Len(segment_list)
    THEN IF current_unit # <<>> THEN <<translation_unit(current_unit, current_length)>> ELSE <<>>
    ELSE IF current_length + Len(segment_list[from].content) > max_length /\ current_unit # <<>>
    THEN <<translation_unit(current_unit, current_length)>>
         \o split_units(segment_list, max_length, from + 1, <<segment_list[from]>>,
                        Len(segment_list[from].content))
    ELSE split_units(segment_list, max_length, from + 1, Append(current_unit, segment_list[from]),
                     current_length + Len(segment_list[from].content))

\* split_for_translation
split_for_translation(text, max_length) ==
    split_units(create_segments(text), max_length, 1, <<>>, 0)

(***************************************************************************)
(* The splitter on its own: one call of split_by_lines, create_segments or *)
(* split_for_translation on a chapter text (the splitter keeps no state    *)
(* between calls).                                                         *)
(***************************************************************************)
MaxLines == 2
MaxParagraphs == 3
DefaultMaxLength == 1000

\* the lines of the line-mode texts
SplitLinePool == {<<>>, <<" ">>, <<"a","\r">>, <<"a"," ","b">>, <<"\"","a","\"">>, <<"D","i","n","g","!">>, <<"d","i","n","g","!">>, <<"\"","D","i","n","g","!","\"">>}

\* the paragraphs of the paragraph-mode texts
ParagraphPool == {<<"a">>, <<"a"," ","b">>, <<"D","i","n","g","!">>}

SplitTexts ==
    {join(ls, <<"\n">>) : ls \in SeqsUpTo(SplitLinePool, MaxLines) \ {<<>>}}
    \cup {join(ps, <<"\n", "\n">>) : ps \in SeqsUpTo(ParagraphPool, MaxParagraphs) \ {<<>>}}

MaxLengths == {1, 3, 4, 6, DefaultMaxLength}

InitSplitter ==
    /\ memory_file = EmptyList
    /\ reference_data = NoReference
    /\ phrase_cache = <<>>
    /\ add_calls = 0
    /\ last_add = None
    /\ last_find = None
    /\ last_lookup = None
    /\ collection = None
    /\ last_call = None
    /\ TranslatorIdle
    /\ AsyncIdle
    /\ now = 0

splitter_unchanged ==
    UNCHANGED <<async_vars, now, memory_file, reference_data, phrase_cache, add_calls, last_add, last_find,
                last_lookup, collection, translator_vars>>

\* splitter.split_by_lines(text)
SplitByLines ==
    /\ last_call = None
    /\ \E text \in SplitTexts :
          last_call' = Some([op |-> "split_by_lines", text |-> text,
                             result |-> split_by_lines(text)])
    /\ splitter_unchanged

\* splitter.create_segments(text)
CreateSegments ==
    /\ last_call = None
    /\ \E text \in SplitTexts :
          last_call' = Some([op |-> "create_segments", text |-> text,
                             result |-> create_segments(text)])
    /\ splitter_unchanged

\* splitter.split_for_translation(text, max_length)
SplitForTranslation ==
    /\ last_call = None
    /\ \E text \in SplitTexts, max_length \in MaxLengths :
          last_call' = Some([op |-> "split_for_translation", text |-> text,
                             max_length |-> max_length,
                             result |-> split_for_translation(text, max_length)])
    /\ splitter_unchanged

NextSplitter == SplitByLines \/ CreateSegments \/ SplitForTranslation

SpecSplitter == InitSplitter /\ [][NextSplitter]_vars

\* C14: joining the contents of split_by_lines(T) with newline characters
\* gives exactly T, and split_by_lines(T) has one segment per source line,
\* numbered 1..n.
C14_LineRoundTrip ==
    (last_call # None /\ last_call[1].op = "split_by_lines") =>
        LET text == last_call[1].text
            result == last_call[1].result
        IN  /\ join([k \in 1..Len(result) |-> result[k].content], <<"\n">>) = text
            /\ Len(result) = count_char(text, "\n") + 1
            /\ \A k \in 1..Len(result) : result[k].line_number = k

\* the kind of a text under the order empty-line, dialogue, system-notice,
\* description, with system markers matched case-insensitively
kind_in_order(text) ==
    IF strip(text) = <<>> THEN "empty_line"
    ELSE IF matches_dialogue(text) THEN "dialogue"
    ELSE IF matches_system_ignorecase(text) THEN "system"
    ELSE "description"

single_line_call(op) ==
    /\ last_call # None
    /\ last_call[1].op = op
    /\ count_char(last_call[1].text, "\n") = 0
    /\ Len(last_call[1].result) = 1

\* C15: in both segmentation modes the segment of a single-line text has the
\* kind given by the order empty-line, dialogue, system-notice (markers in
\* any letter case), description; so both modes give the same kind.
C15_KindInOrder ==
    /\ single_line_call("split_by_lines") =>
           last_call[1].result[1].segment_type = kind_in_order(last_call[1].text)
    /\ single_line_call("create_segments") =>
           /\ last_call[1].result[1].segment_type = kind_in_order(last_call[1].text)
           /\ last_call[1].result[1].segment_type
                  = split_by_lines(last_call[1].text)[1].segment_type

RECURSIVE concat_all(_)
concat_all(seqs) == IF seqs = <<>> THEN <<>> ELSE Head(seqs) \o concat_all(Tail(seqs))

RECURSIVE content_length(_)
content_length(segment_list) ==
    IF segment_list = <<>> THEN 0
    ELSE Len(Head(segment_list).content) + content_length(Tail(segment_list))

\* C16: the units of split_for_translation(text, max_length), concatenated in
\* order, are create_segments(text); no unit is empty; total_length is the sum
\* of the unit's content lengths; a unit is followed by another exactly when
\* the next segment would have made it exceed max_length, so a unit of more
\* than one segment has total_length <= max_length.
C16_GreedyPartition ==
    (last_call # None /\ last_call[1].op = "split_for_translation") =>
        LET units == last_call[1].result
            max_length == last_call[1].max_length
            all == create_segments(last_call[1].text)
            \* the number of segments in the units before unit k
            before(k) == Len(concat_all([j \in 1..(k - 1) |-> units[j].segments]))
        IN  /\ concat_all([k \in 1..Len(units) |-> units[k].segments]) = all
            /\ \A k \in 1..Len(units) :
                   /\ units[k].segments # <<>>
                   /\ units[k].total_length = content_length(units[k].segments)
                   /\ Len(units[k].segments) > 1 => units[k].total_length <= max_length
                   \* closed only when the next segment would exceed the budget
                   /\ k < Len(units) =>
                          units[k].total_length + Len(units[k + 1].segments[1].content)
                              > max_length
                   \* and always closed then
                   /\ \A n \in 1..(Len(units[k].segments) - 1) :
                          content_length(SubSeq(units[k].segments, 1, n))
                              + Len(units[k].segments[n + 1].content) <= max_length

\* a text of three paragraphs split into a unit of two segments that fills
\* max_length exactly, followed by a second unit
C16_Witness ==
    /\ last_call # None
    /\ last_call[1].op = "split_for_translation"
    /\ Len(last_call[1].result) = 2
    /\ Len(last_call[1].result[1].segments) = 2
    /\ last_call[1].result[1].total_length = last_call[1].max_length

(***************************************************************************)
(* ChapterValidator.  An issue keeps its type, severity, subject (the      *)
(* pattern its message names) and line number; the context, suggestion and *)
(* recommendation strings are texts for the reader and are left out.       *)
(* overall_score is in tenths of a point (700 is 70.0).                    *)
(***************************************************************************)
ValidationIssue(issue_type, severity, message, line_number) ==
    [issue_type |-> issue_type, severity |-> severity, message |-> message,
     line_number |-> line_number]

\* config.BANNED_ARCHAISMS
BannedArchaisms == <<<<"v","e","s","'","m","a">>, <<"s","e","j">>>>

\* ChapterValidator.calque_patterns
CalquePatterns ==
    <<<<"k","r","a","j","n","e">>, <<"s","l","e","v","a"," ","i"," ","s","p","r","a","v","a">>, <<"s","o","v","e","r","s","h","e","n","n","a">>, <<"N","a"," ","e","g","o"," ","v","z","g","l","j","a","d">>, <<"r","e","z","j","u","m","i","r","o","v","a","l">>,
      <<"o","s","u","s","h","c","h","e","s","t","v","l","j","a","t","'">>, <<"p","r","o","i","z","v","o","d","i","t","'"," ","v","p","e","c","h","a","t","l","e","n","i","e">>, <<"i","s","p","y","t","y","v","a","t","'"," ","c","h","u","v","s","t","v","o">>>>

\* ChapterValidator.formal_dialogue_patterns
FormalDialoguePatterns ==
    <<<<"J","a"," ","s","o","b","i","r","a","j","u","s","'">>, <<"P","o","z","v","o","l","'","t","e"," ","m","n","e">>, <<"N","e"," ","m","o","g","l","i"," ","b","y"," ","v","y">>, <<"J","a"," ","h","o","t","e","l"," ","b","y">>,
      <<"K","a","z","h","e","t","s","j","a",","," ","c","h","t","o">>, <<"J","a"," ","b","o","j","u","s","'",","," ","c","h","t","o">>>>

\* ChapterValidator.glossary_terms, in insertion order
GlossaryTerms ==
    <<<<<<"S","l","a","c","k","-","O","f","f"," ","S","y","s","t","e","m">>, <<"S","i","s","t","e","m","a"," ","B","e","z","d","e","l","'","j","a">>>>,
      <<<<"H","o","l","y"," ","S","o","n">>, <<"S","v","j","a","t","o","j"," ","S","y","n">>>>,
      <<<<"B","a","n","i","s","h","e","d"," ","I","m","m","o","r","t","a","l"," ","P","e","a","k">>, <<"P","i","k"," ","I","z","g","n","a","n","n","o","g","o"," ","B","e","s","s","m","e","r","t","n","o","g","o">>>>,
      <<<<"P","r","i","m","o","r","d","i","a","l"," ","H","o","l","y"," ","L","a","n","d">>, <<"I","z","n","a","c","h","a","l","'","n","a","j","a"," ","S","v","j","a","t","a","j","a"," ","Z","e","m","l","j","a">>>>,
      <<<<"d","o","g"," ","l","i","c","k","e","r">>, <<"p","o","d","h","a","l","i","m">>>>>>

\* character_names of _validate_consistency: the name to use and its variants
CharacterNames ==
    <<<<<<"C","z","j","a","n"," ","C","h","e","n","'">>, <<<<"J","i","a","n","g"," ","C","h","e","n">>, <<"c","z","j","a","n"," ","c","h","e","n","'">>>>>>,
      <<<<"E"," ","C","i","n","c","h","e","n">>, <<<<"Y","e"," ","Q","i","n","g","c","h","e","n","g">>, <<"e"," ","c","i","n","c","h","e","n">>>>>>,
      <<<<"D","u"," ","G","u","j","u","n","'">>, <<<<"D","u"," ","G","u","y","u","n">>, <<"d","u"," ","g","u","j","u","n","'">>>>>>>>

\* config.QUALITY_METRICS: the weight of each metric, in hundredths
QualityMetrics ==
    <<<<"dialogue_naturalness", 30>>, <<"terminology_consistency", 25>>,
      <<"character_voice", 25>>, <<"cultural_adaptation", 20>>>>

\* the start positions of re.finditer(re.escape(sub), s) from start on: the
\* matches are taken left to right and do not overlap
RECURSIVE finditer(_, _, _)
finditer(s, sub, start) ==
    LET next(i) == IF i = 0 THEN <<>> ELSE <<i>> \o finditer(s, sub, i + Len(sub))
    IN  next(find(s, sub, start))

\* str.count(sub)
count_of(s, sub) == Len(finditer(s, sub, 1))

\* len([l for l in text.split('\n') if l.strip()])
filled_lines(text) ==
    LET lines == split_lines(text)
    IN  Cardinality({i \in 1..Len(lines) : strip(lines[i]) # <<>>})

abs(n) == IF n < 0 THEN -n ELSE n

\* _validate_structure
validate_structure(original, translated) ==
    LET lines(orig_lines, trans_lines) ==
            IF abs(orig_lines - trans_lines) > 2
            THEN <<ValidationIssue("Struktura", "high", <<>>, 0)>> ELSE <<>>
        empties(orig_empty, trans_empty) ==
            IF abs(orig_empty - trans_empty) > 1
            THEN <<ValidationIssue("Struktura", "medium", <<>>, 0)>> ELSE <<>>
    IN  lines(filled_lines(original), filled_lines(translated))
        \o empties(count_of(original, <<"\n", "\n">>), count_of(translated, <<"\n", "\n">>))

\* the issues appended for the matches of one pattern; the line number of a
\* match is text[:match.start()].count('\n') + 1
match_issues(text, starts, issue_type, severity, pattern) ==
    [k \in 1..Len(starts) |->
        ValidationIssue(issue_type, severity, pattern,
                        count_char(SubSeq(text, 1, starts[k] - 1), "\n") + 1)]

\* a variant of archaism_present that looks for the archaism in the text as
\* written
archaism_present_cased(text, archaism) == contains(text, archaism)

\* the test "archaism in text.lower()"
archaism_present(text, archaism) == contains(lower(text), archaism)

\* _validate_archaisms, the patterns k.. ; finditer runs with re.IGNORECASE
RECURSIVE validate_archaisms_from(_, _)
validate_archaisms_from(text, k) ==
    IF k > Len(BannedArchaisms) THEN <<>>
    ELSE (IF archaism_present(text, BannedArchaisms[k])
          THEN match_issues(text, finditer(lower(text), lower(BannedArchaisms[k]), 1),
                            "Arhaizm", "critical", BannedArchaisms[k])
          ELSE <<>>)
         \o validate_archaisms_from(text, k + 1)

validate_archaisms(text) == validate_archaisms_from(text, 1)

\* the loop shared by _validate_calques and _validate_dialogues, the
\* patterns k..
RECURSIVE validate_patterns_from(_, _, _, _, _)
validate_patterns_from(text, patterns, issue_type, severity, k) ==
    IF k > Len(patterns) THEN <<>>
    ELSE (IF contains(text, patterns[k])
          THEN match_issues(text, finditer(text, patterns[k], 1), issue_type, severity,
                            patterns[k])
          ELSE <<>>)
         \o validate_patterns_from(text, patterns, issue_type, severity, k + 1)

\* _validate_calques
validate_calques(text) == validate_patterns_from(text, CalquePatterns, "Kal'ka", "high", 1)

\* _validate_dialogues
validate_dialogues(text) ==
    validate_patterns_from(text, FormalDialoguePatterns, "Formal'nyj dialog", "medium", 1)

\* a variant of validate_terminology_from that reports an English term even
\* when the text also holds its Russian term
RECURSIVE validate_terminology_any_occurrence(_, _)
validate_terminology_any_occurrence(text, k) ==
    IF k > Len(GlossaryTerms) THEN <<>>
    ELSE (IF contains(text, GlossaryTerms[k][1])
          THEN <<ValidationIssue("Terminologija", "high", GlossaryTerms[k][1], 0)>>
          ELSE <<>>)
         \o validate_terminology_any_occurrence(text, k + 1)

\* _validate_terminology, the terms k..
RECURSIVE validate_terminology_from(_, _)
validate_terminology_from(text, k) ==
    IF k > Len(GlossaryTerms) THEN <<>>
    ELSE (IF contains(text, GlossaryTerms[k][1]) /\ ~contains(text, GlossaryTerms[k][2])
          THEN <<ValidationIssue("Terminologija", "high", GlossaryTerms[k][1], 0)>>
          ELSE <<>>)
         \o validate_terminology_from(text, k + 1)

validate_terminology(text) == validate_terminology_from(text, 1)

SentenceEnds == {".", "!", "?"}

\* re.split(r'[.!?]+', text)
RECURSIVE split_sentences(_)
split_sentences(text) ==
    LET ends == {i \in 1..Len(text) : text[i] \in SentenceEnds}
        rest(first) ==
            LET after == {i \in (first + 1)..Len(text) : text[i] \notin SentenceEnds}
            IN  <<SubSeq(text, 1, first - 1)>>
                \o (IF after = {} THEN <<<<>>>>
                    ELSE split_sentences(SubSeq(text, SetMin(after), Len(text))))
    IN  IF ends = {} THEN <<text>> ELSE rest(SetMin(ends))

\* len(sentence.split())
word_count(s) ==
    Cardinality({i \in 1..Len(s) :
                    s[i] \notin Whitespace /\ (i = 1 \/ s[i - 1] \in Whitespace)})

\* _validate_readability: one issue for each sentence of more than 15 words,
\* its line_number is the sentence's number
validate_readability(text) ==
    LET sentences == split_sentences(text)
        long == {i \in 1..Len(sentences) : word_count(sentences[i]) > 15}
        RECURSIVE issues_from(_)
        issues_from(i) ==
            IF i > Len(sentences) THEN <<>>
            ELSE (IF i \in long
                  THEN <<ValidationIssue("Chitabel'nost'", "medium", <<>>, i)>>
                  ELSE <<>>)
                 \o issues_from(i + 1)
    IN  issues_from(1)

\* _validate_consistency, the characters k..: found_variants holds the
\* variants that occur in the text
RECURSIVE validate_consistency_from(_, _)
validate_consistency_from(text, k) ==
    IF k > Len(CharacterNames) THEN <<>>
    ELSE LET variants == CharacterNames[k][2]
             found_variants == {v \in 1..Len(variants) : contains(text, variants[v])}
         IN  (IF Cardinality(found_variants) > 1
              THEN <<ValidationIssue("Konsistentnost'", "high", CharacterNames[k][1], 0)>>
              ELSE <<>>)
             \o validate_consistency_from(text, k + 1)

validate_consistency(text) == validate_consistency_from(text, 1)

count_type(issues, issue_type) ==
    Cardinality({i \in 1..Len(issues) : issues[i].issue_type = issue_type})

\* max(0, 100 - count * penalty)
metric_score(count, penalty) ==
    IF 100 - count * penalty < 0 THEN 0 ELSE 100 - count * penalty

\* _calculate_quality_scores
calculate_quality_scores(issues) ==
    <<<<"dialogue_naturalness", metric_score(count_type(issues, "Formal'nyj dialog"), 10)>>,
      <<"terminology_consistency", metric_score(count_type(issues, "Terminologija"), 15)>>,
      <<"character_voice", metric_score(count_type(issues, "Arhaizm"), 20)>>,
      <<"cultural_adaptation", metric_score(count_type(issues, "Kal'ka"), 15)>>>>

\* round(total, 1) for a total given in hundredths, the result in tenths;
\* a total halfway between two tenths goes to the even one
round_tenths(hundredths) ==
    LET q == hundredths \div 10
        r == hundredths % 10
    IN  IF r > 5 \/ (r = 5 /\ q % 2 = 1) THEN q + 1 ELSE q

\* the loop of _calculate_overall_score over QUALITY_METRICS k.., the sum in
\* hundredths
RECURSIVE weighted_total(_, _)
weighted_total(quality_scores, k) ==
    IF k > Len(QualityMetrics) THEN 0
    ELSE (IF dict_has(quality_scores, QualityMetrics[k][1])
          THEN dict_get(quality_scores, QualityMetrics[k][1]) * QualityMetrics[k][2]
          ELSE 0)
         + weighted_total(quality_scores, k + 1)

\* _calculate_overall_score
calculate_overall_score(quality_scores) == round_tenths(weighted_total(quality_scores, 1))

\* a variant of chapter_is_valid that decides on the score alone
chapter_is_valid_by_score(issues, overall_score) == overall_score >= 700

\* is_valid = len(critical_issues) == 0 and overall_score >= 70
chapter_is_valid(issues, overall_score) ==
    LET critical_issues == {i \in 1..Len(issues) : issues[i].severity = "critical"}
    IN  Cardinality(critical_issues) = 0 /\ overall_score >= 700

ValidationResult(is_valid, issues, quality_scores, overall_score) ==
    [is_valid |-> is_valid, issues |-> issues, quality_scores |-> quality_scores,
     overall_score |-> overall_score]

\* validate_chapter
validate_chapter(original_text, translated_text) ==
    LET scored(issues, quality_scores, overall_score) ==
            ValidationResult(chapter_is_valid(issues, overall_score), issues,
                             quality_scores, overall_score)
        with_scores(issues, quality_scores) ==
            scored(issues, quality_scores, calculate_overall_score(quality_scores))
        with_issues(issues) == with_scores(issues, calculate_quality_scores(issues))
    IN  with_issues(validate_structure(original_text, translated_text)
                    \o validate_archaisms(translated_text)
                    \o validate_calques(translated_text)
                    \o validate_dialogues(translated_text)
                    \o validate_terminology(translated_text)
                    \o validate_readability(translated_text)
                    \o validate_consistency(translated_text))

(***************************************************************************)
(* The validator on its own: one validate_chapter call on an original and  *)
(* a translated text (the validator keeps no state between calls).         *)
(***************************************************************************)
MaxFormal == 4

\* s repeated n times, separated by spaces
RECURSIVE repeated(_, _)
repeated(s, n) == IF n = 0 THEN <<>> ELSE IF n = 1 THEN s ELSE s \o <<" ">> \o repeated(s, n - 1)

\* the first n glossary terms, untranslated
RECURSIVE untranslated_terms(_)
untranslated_terms(n) ==
    IF n = 0 THEN <<>>
    ELSE IF n = 1 THEN GlossaryTerms[1][1]
    ELSE untranslated_terms(n - 1) \o <<" ">> \o GlossaryTerms[n][1]

ArchaismParts == {<<>>, <<"v","e","s","'","m","a">>, <<"V","e","s","'","m","a">>, <<"S","e","j"," ","v","e","s","'","m","a">>}
FormalParts == {repeated(FormalDialoguePatterns[1], n) : n \in {0, 1, MaxFormal}}
TermParts ==
    {untranslated_terms(n) : n \in {0, 2, 3, Len(GlossaryTerms)}}
    \cup {GlossaryTerms[2][1] \o <<" ">> \o GlossaryTerms[2][2]}
CalqueParts == {<<>>, <<"k","r","a","j","n","e">>}
NameParts == {<<>>, <<"C","z","j","a","n"," ","C","h","e","n","'">>, <<"C","z","j","a","n"," ","C","h","e","n","'"," ","J","i","a","n","g"," ","C","h","e","n">>, <<"J","i","a","n","g"," ","C","h","e","n"," ","c","z","j","a","n"," ","c","h","e","n","'">>}
PartSeparators == {<<" ">>, <<".","\n">>}

\* the parts that are not empty, joined by sep
RECURSIVE join_parts(_, _)
join_parts(parts, sep) ==
    IF parts = <<>> THEN <<>>
    ELSE LET rest == join_parts(Tail(parts), sep)
         IN  IF Head(parts) = <<>> THEN rest
             ELSE IF rest = <<>> THEN Head(parts)
             ELSE Head(parts) \o sep \o rest

TranslatedTexts ==
    {join_parts(<<a, f, t, c, n>>, sep) :
        a \in ArchaismParts, f \in FormalParts, t \in TermParts, c \in CalqueParts,
        n \in NameParts, sep \in PartSeparators}

OriginalTexts == {<<"a">>, <<"a","\n","\n","b","\n","\n","c">>, <<"a","\n","b","\n","c","\n","d">>}

InitValidator ==
    /\ memory_file = EmptyList
    /\ reference_data = NoReference
    /\ phrase_cache = <<>>
    /\ add_calls = 0
    /\ last_add = None
    /\ last_find = None
    /\ last_lookup = None
    /\ collection = None
    /\ last_call = None
    /\ TranslatorIdle
    /\ AsyncIdle
    /\ now = 0

\* validator.validate_chapter(original_text, translated_text)
ValidateChapter ==
    /\ last_call = None
    /\ \E original_text \in OriginalTexts, translated_text \in TranslatedTexts :
          last_call' = Some([op |-> "validate_chapter",
                             original_text |-> original_text,
                             translated_text |-> translated_text,
                             result |-> validate_chapter(original_text, translated_text)])
    /\ UNCHANGED <<async_vars, now, memory_file, reference_data, phrase_cache, add_calls, last_add, last_find,
                   last_lookup, collection, translator_vars>>

NextValidator == ValidateChapter

SpecValidator == InitValidator /\ [][NextValidator]_vars

has_severity(issues, severity) == \E i \in 1..Len(issues) : issues[i].severity = severity

\* C17: validate_chapter sets is_valid exactly when the issue list holds no
\* critical-severity issue and overall_score is at least 70.
C17_ValidIffNoCriticalAndScore ==
    last_call # None =>
        LET result == last_call[1].result
        IN  result.is_valid
                <=> (~has_severity(result.issues, "critical") /\ result.overall_score >= 700)

\* a call whose score alone is 70 or more but whose issues include a critical one
C17_Witness ==
    /\ last_call # None
    /\ last_call[1].result.overall_score >= 700
    /\ has_severity(last_call[1].result.issues, "critical")
    /\ ~last_call[1].result.is_valid

\* the occurrences of banned archaisms in a text, letter case ignored: the
\* pairs <<archaism, position>>
archaism_occurrences(text) ==
    {p \in (1..Len(BannedArchaisms)) \X (1..Len(text)) :
        /\ p[2] + Len(BannedArchaisms[p[1]]) - 1 <= Len(text)
        /\ occurs_at(lower(text), lower(BannedArchaisms[p[1]]), p[2])}

count_severity(issues, severity) ==
    Cardinality({i \in 1..Len(issues) : issues[i].severity = severity})

\* C18: a translated text that contains a banned archaism in any letter case
\* gets one critical-severity issue per occurrence and is_valid = false,
\* whatever its overall score.
C18_ArchaismIsCritical ==
    (last_call # None /\ archaism_occurrences(last_call[1].translated_text) # {}) =>
        /\ count_severity(last_call[1].result.issues, "critical")
               = Cardinality(archaism_occurrences(last_call[1].translated_text))
        /\ ~last_call[1].result.is_valid

\* a text whose only archaism is written with a capital letter and whose
\* overall score is 70 or more
C18_Witness ==
    /\ last_call # None
    /\ archaism_occurrences(last_call[1].translated_text) # {}
    /\ ~contains(last_call[1].translated_text, BannedArchaisms[1])
    /\ ~contains(last_call[1].translated_text, BannedArchaisms[2])
    /\ last_call[1].result.overall_score >= 700
    /\ count_severity(last_call[1].result.issues, "critical") = 1
    /\ ~last_call[1].result.is_valid

\* a text with no banned archaism, no calque and no formal-dialogue phrase
\* whose line count equals the original's
clean_call ==
    /\ last_call # None
    /\ archaism_occurrences(last_call[1].translated_text) = {}
    /\ \A k \in 1..Len(CalquePatterns) :
           ~contains(last_call[1].translated_text, CalquePatterns[k])
    /\ \A k \in 1..Len(FormalDialoguePatterns) :
           ~contains(last_call[1].translated_text, FormalDialoguePatterns[k])
    /\ filled_lines(last_call[1].original_text) = filled_lines(last_call[1].translated_text)

\* the glossary terms a text leaves untranslated
untranslated_in(text) ==
    {k \in 1..Len(GlossaryTerms) :
        contains(text, GlossaryTerms[k][1]) /\ ~contains(text, GlossaryTerms[k][2])}

\* C19 as stated: such a text gets overall_score >= 90 and is_valid = true,
\* whatever terminology, readability or name-consistency issues it has.
C19_CleanTextScoresNinety ==
    clean_call =>
        /\ last_call[1].result.overall_score >= 900
        /\ last_call[1].result.is_valid

\* C19 amended: such a text gets is_valid = true and the overall score
\* 100 - 3.75 t rounded to one decimal, t being the number of glossary terms
\* it leaves untranslated: at least 81.2, and 90 or more exactly when t <= 2.
\* Readability and name-consistency issues do not change the score.
C19_CleanTextScoresByTerms ==
    clean_call =>
        LET t == Cardinality(untranslated_in(last_call[1].translated_text))
        IN  /\ last_call[1].result.is_valid
            /\ last_call[1].result.overall_score = <<1000, 962, 925, 888, 850, 812>>[t + 1]
            /\ last_call[1].result.overall_score >= 900 <=> t <= 2

\* a clean text that leaves every glossary term untranslated and also has a
\* readability and a name-consistency issue
C19_Witness ==
    /\ clean_call
    /\ Cardinality(untranslated_in(last_call[1].translated_text)) = Len(GlossaryTerms)
    /\ count_type(last_call[1].result.issues, "Chitabel'nost'") > 0
    /\ count_type(last_call[1].result.issues, "Konsistentnost'") > 0
    /\ last_call[1].result.overall_score = 812
    /\ last_call[1].result.is_valid

\* the surface forms of character k's name that occur in a text
forms_found(text, k) ==
    {f \in {CharacterNames[k][1]}
           \cup {CharacterNames[k][2][v] : v \in 1..Len(CharacterNames[k][2])} :
        contains(text, f)}

\* C20: whenever more than one surface form of a character's name occurs in
\* the translated text, a high-severity consistency issue is reported for
\* that character.
C20_MixedNameFormsReported ==
    last_call # None =>
        \A k \in 1..Len(CharacterNames) :
            Cardinality(forms_found(last_call[1].translated_text, k)) > 1
                => \E i \in 1..Len(last_call[1].result.issues) :
                       /\ last_call[1].result.issues[i].issue_type = "Konsistentnost'"
                       /\ last_call[1].result.issues[i].severity = "high"
                       /\ last_call[1].result.issues[i].message = CharacterNames[k][1]

(***************************************************************************)
(* The character detector on its own: one detect_character_from_text call  *)
(* per behaviour.                                                          *)
(***************************************************************************)
\* the first n words of a list
first_words(words, n) == SubSeq(words, 1, n)

\* texts made of the first words of Jiang Chen's preferred words, avoided
\* words and speech patterns and of Ye Qingcheng's keywords, behind an
\* optional leading word (a name, a system marker or neither)
DetectorTexts ==
    {join_parts(<<lead>> \o first_words(CharacterProfiles[1].speech_patterns, s)
                    \o first_words(CharacterProfiles[1].prefer_words, p)
                    \o first_words(CharacterProfiles[1].avoid_words, a)
                    \o first_words(CharacterProfiles[2].keywords, k), <<" ">>) :
        lead \in {<<>>, <<"E","l","d","e","r">>, <<"D","i","n","g","!">>},
        s \in 0..Len(CharacterProfiles[1].speech_patterns),
        p \in 0..Len(CharacterProfiles[1].prefer_words),
        a \in 0..Len(CharacterProfiles[1].avoid_words),
        k \in 0..Len(CharacterProfiles[2].keywords)}

InitDetector ==
    /\ memory_file = EmptyList
    /\ reference_data = NoReference
    /\ phrase_cache = <<>>
    /\ add_calls = 0
    /\ last_add = None
    /\ last_find = None
    /\ last_lookup = None
    /\ collection = None
    /\ last_call = None
    /\ TranslatorIdle
    /\ AsyncIdle
    /\ now = 0

\* detector.detect_character_from_text(text)
DetectCharacter ==
    /\ last_call = None
    /\ \E text \in DetectorTexts :
          last_call' = Some([op |-> "detect_character_from_text", text |-> text,
                             result |-> detect_character_from_text(text)])
    /\ UNCHANGED <<async_vars, now, memory_file, reference_data, phrase_cache, add_calls, last_add, last_find,
                   last_lookup, collection, translator_vars>>

NextDetector == DetectCharacter

SpecDetector == InitDetector /\ [][NextDetector]_vars

\* C21: the confidence detect_character_from_text returns is a number in
\* [0.0, 1.0].
C21_ConfidenceInUnitInterval ==
    last_call # None =>
        /\ ~last_call[1].result[2].neg
        /\ ~float_gt(last_call[1].result[2], One)

(***************************************************************************)
(* The quality score on its own: one _calculate_quality_score call per     *)
(* behaviour.                                                              *)
(***************************************************************************)
\* the longest text scored
MaxTextLength == 10001

\* text filled up with full stops to length n (as it is when already longer)
padded(text, n) == text \o [i \in 1..(n - Len(text)) |-> "."]

\* the lengths around the two thresholds of the score, and the longest one
ScoredLengths == {0, 9, 10, 500, 501, MaxTextLength}

\* texts of the first archaisms and the first natural patterns, the
\* archaisms capitalised or not, filled up to the lengths above
ScoredTexts ==
    {padded(join_parts(first_words(Archaisms, a) \o first_words(NaturalPatterns, n), <<" ">>), length) :
        a \in 0..Len(Archaisms), n \in 0..Len(NaturalPatterns), length \in ScoredLengths}
    \cup {padded(word, length) :
            word \in {<<"S","e","j">>, <<"h","o","c","h","u">>, <<"p","o","h","o","z","h","e"," ","I","b","o">>}, length \in ScoredLengths}

InitScore ==
    /\ memory_file = EmptyList
    /\ reference_data = NoReference
    /\ phrase_cache = <<>>
    /\ add_calls = 0
    /\ last_add = None
    /\ last_find = None
    /\ last_lookup = None
    /\ collection = None
    /\ last_call = None
    /\ TranslatorIdle
    /\ AsyncIdle
    /\ now = 0

\* translator._calculate_quality_score(text)
CalculateQualityScore ==
    /\ last_call = None
    /\ \E text \in ScoredTexts :
          last_call' = Some([op |-> "_calculate_quality_score", text |-> text,
                             result |-> calculate_quality_score(text)])
    /\ UNCHANGED <<async_vars, now, memory_file, reference_data, phrase_cache, add_calls, last_add, last_find,
                   last_lookup, collection, translator_vars>>

NextScore == CalculateQualityScore

SpecScore == InitScore /\ [][NextScore]_vars

\* the archaisms a text holds in any letter case, and the natural-dialogue
\* markers it holds as they are written
detected_archaisms(text) == {k \in 1..Len(Archaisms) : contains(lower(text), Archaisms[k])}
detected_markers(text) == {k \in 1..Len(NaturalPatterns) : contains(text, NaturalPatterns[k])}

TranslationResponse(text, detected_source_language, success, error_message) ==
    [text |-> text, detected_source_language |-> detected_source_language,
     success |-> success, error_message |-> error_message]

\* the translation DeepL gives for a text
api_translation(text) == <<"r","u",":">> \o text

\* _call_deepl_api(texts, "EN", "RU"): the responses it returns when the
\* API answers 200 with a translation per text ("ok"), answers 200 with the
\* last translation missing ("short"), answers another status ("status") or
\* the request raises ("network")
call_deepl_api(texts, outcome) ==
    IF outcome = "ok"
    THEN [k \in 1..Len(texts) |-> TranslationResponse(api_translation(texts[k]), "EN", TRUE, None)]
    ELSE IF outcome = "short"
    THEN [k \in 1..(Len(texts) - 1) |->
             TranslationResponse(api_translation(texts[k]), "EN", TRUE, None)]
    ELSE IF outcome = "status"
    THEN [k \in 1..Len(texts) |-> TranslationResponse(<<>>, "EN", FALSE, Some("API Error"))]
    ELSE [k \in 1..Len(texts) |-> TranslationResponse(<<>>, "EN", FALSE, Some("Network Error"))]

\* asyncio.Semaphore.locked()
locked(sem) == sem.value = 0 \/ sem.waiters # <<>>

\* a variant of release that frees two places
release_two(sem) == [sem EXCEPT !.value = @ + 2]

\* asyncio.Semaphore.release(): the batch at the head of the waiters is
\* resumed in a later step
release(sem) == [sem EXCEPT !.value = @ + 1]

\* [text for _, text in batch]
batch_texts(batch) == [k \in 1..Len(batch) |-> batch[k][2]]

\* f"{source_lang}_{target_lang}_{hash(tuple(...))}": the hash of a tuple of
\* texts stands for the tuple
batch_cache_key(batch) == <<"EN", "RU", batch_texts(batch)>>

\* [(i, text) for i, text in enumerate(texts) if text.strip()]
RECURSIVE non_empty_from(_, _)
non_empty_from(texts, i) ==
    IF i > Len(texts) THEN <<>>
    ELSE IF strip(texts[i]) # <<>> THEN <<<<i - 1, texts[i]>>>> \o non_empty_from(texts, i + 1)
    ELSE non_empty_from(texts, i + 1)

non_empty_texts(texts) == non_empty_from(texts, 1)

\* the batches of translate_batch_async
RECURSIVE batches_of(_, _)
batches_of(pairs, batch_size) ==
    IF pairs = <<>> THEN <<>>
    ELSE IF Len(pairs) <= batch_size THEN <<pairs>>
    ELSE <<SubSeq(pairs, 1, batch_size)>>
             \o batches_of(SubSeq(pairs, batch_size + 1, Len(pairs)), batch_size)

\* the loop that restores the order with the empty texts, from text i and
\* result_index on: the final results, or "IndexError" when all_results is
\* too short
RECURSIVE restore_order(_, _, _, _, _)
restore_order(texts, all_results, i, result_index, final_results) ==
    IF i > Len(texts) THEN [raised |-> None, value |-> final_results]
    ELSE IF strip(texts[i]) # <<>>
    THEN IF result_index > Len(all_results)
         THEN [raised |-> Some("IndexError"), value |-> <<>>]
         ELSE restore_order(texts, all_results, i + 1, result_index + 1,
                            Append(final_results, all_results[result_index]))
    ELSE restore_order(texts, all_results, i + 1, result_index,
                       Append(final_results, TranslationResponse(<<>>, "EN", TRUE, None)))

\* the tasks a translate_batch_async call launched
tasks_of(call) == {t \in 1..Len(tasks) : tasks[t].call = call}

\* the batches inside the section of _translate_batch that calls the API
inside == {t \in 1..Len(tasks) : tasks[t].pc = "api"}

(***************************************************************************)
(* One AsyncDeepLTranslator and the translate_batch_async calls made on it *)
(***************************************************************************)
MaxCalls == 2
MaxConcurrent == 2
MaxBatchSize == 2

Blank == <<" ">>
AsyncTexts == {<<<<"a">>>>, <<Blank, <<>>>>, <<<<"a">>, Blank, <<"b">>>>}
ApiOutcomes == {"ok", "short", "status", "network"}

async_unchanged ==
    UNCHANGED <<memory_file, reference_data, phrase_cache, add_calls, last_add, last_find,
                last_lookup, collection, last_call, translator_vars, now>>

\* AsyncDeepLTranslator(api_key, max_concurrent)
InitAsync ==
    /\ memory_file = EmptyList
    /\ reference_data = NoReference
    /\ phrase_cache = <<>>
    /\ add_calls = 0
    /\ last_add = None
    /\ last_find = None
    /\ last_lookup = None
    /\ collection = None
    /\ last_call = None
    /\ TranslatorIdle
    /\ now = 0
    /\ max_concurrent \in 1..MaxConcurrent
    /\ semaphore = [value |-> max_concurrent, waiters |-> <<>>]
    /\ batch_cache = <<>>
    /\ stats = [cache_hits |-> 0, api_calls |-> 0, errors |-> 0, total_translations |-> 0]
    /\ tasks = <<>>
    /\ invocations = <<>>

\* translate_batch_async(texts, batch_size) up to asyncio.gather
TranslateBatchAsync ==
    /\ Len(invocations) < MaxCalls
    /\ \E texts \in AsyncTexts, batch_size \in 1..MaxBatchSize :
          LET call == Len(invocations) + 1
              batches == batches_of(non_empty_texts(texts), batch_size)
          IN  IF batches = <<>>
              THEN /\ invocations' =
                          Append(invocations,
                                 [texts |-> texts, batch_size |-> batch_size, pc |-> "returned",
                                  raised |-> None,
                                  value |-> [k \in 1..Len(texts) |->
                                                TranslationResponse(<<>>, "EN", TRUE, None)]])
                   /\ UNCHANGED tasks
              ELSE /\ invocations' =
                          Append(invocations,
                                 [texts |-> texts, batch_size |-> batch_size, pc |-> "gather",
                                  raised |-> None, value |-> <<>>])
                   /\ tasks' = tasks \o [k \in 1..Len(batches) |->
                                            [call |-> call, batch |-> batches[k],
                                             pc |-> "created", results |-> <<>>]]
    /\ UNCHANGED <<max_concurrent, semaphore, batch_cache, stats>>
    /\ async_unchanged

\* _translate_batch of task t from the moment it holds the semaphore (sem is
\* the semaphore then) to its first suspension or its return
enter_section(t, sem) ==
    LET key == batch_cache_key(tasks[t].batch)
    IN  IF dict_has(batch_cache, key)
        THEN /\ tasks' = [tasks EXCEPT ![t].pc = "done", ![t].results = dict_get(batch_cache, key)]
             /\ stats' = [stats EXCEPT !.cache_hits = @ + 1]
             /\ semaphore' = release(sem)
        ELSE /\ tasks' = [tasks EXCEPT ![t].pc = "api"]
             /\ stats' = stats
             /\ semaphore' = sem

\* the event loop starts the oldest task not yet started: "async with
\* self.semaphore" enters at once or suspends the task
StartBatch ==
    /\ \E t \in 1..Len(tasks) :
          /\ tasks[t].pc = "created"
          /\ \A u \in 1..(t - 1) : tasks[u].pc # "created"
          /\ IF locked(semaphore)
             THEN /\ tasks' = [tasks EXCEPT ![t].pc = "waiting"]
                  /\ semaphore' = [semaphore EXCEPT !.waiters = Append(@, t)]
                  /\ UNCHANGED stats
             ELSE enter_section(t, [semaphore EXCEPT !.value = @ - 1])
    /\ UNCHANGED <<max_concurrent, batch_cache, invocations>>
    /\ async_unchanged

\* the task that waited longest for the semaphore is resumed and enters
ResumeBatch ==
    /\ semaphore.waiters # <<>>
    /\ semaphore.value > 0
    /\ enter_section(Head(semaphore.waiters),
                     [value |-> semaphore.value - 1, waiters |-> Tail(semaphore.waiters)])
    /\ UNCHANGED <<max_concurrent, batch_cache, invocations>>
    /\ async_unchanged

\* the API call of a task completes: the result is cached and returned, and
\* the semaphore is released
ApiResponds ==
    /\ \E t \in 1..Len(tasks), outcome \in ApiOutcomes :
          /\ tasks[t].pc = "api"
          /\ LET answered(responses) ==
                     /\ batch_cache' = dict_set(batch_cache, batch_cache_key(tasks[t].batch), responses)
                     /\ tasks' = [tasks EXCEPT ![t].pc = "done", ![t].results = responses]
             IN  answered(call_deepl_api(batch_texts(tasks[t].batch), outcome))
          /\ stats' = IF outcome \in {"ok", "short"}
                      THEN [stats EXCEPT !.api_calls = @ + 1]
                      ELSE stats
    /\ semaphore' = release(semaphore)
    /\ UNCHANGED <<max_concurrent, invocations>>
    /\ async_unchanged

\* asyncio.gather returns to a translate_batch_async call, which puts the
\* results in the order of the texts
Gather ==
    /\ \E call \in 1..Len(invocations) :
          /\ invocations[call].pc = "gather"
          /\ \A t \in tasks_of(call) : tasks[t].pc = "done"
          /\ LET finished(outcome) ==
                     /\ invocations' =
                            [invocations EXCEPT ![call].pc = "returned",
                                                ![call].raised = outcome.raised,
                                                ![call].value = outcome.value]
                     /\ stats' = IF outcome.raised = None
                                 THEN [stats EXCEPT !.total_translations =
                                                        @ + Len(invocations[call].texts)]
                                 ELSE stats
                 all_results(ts) ==
                     concat_all([k \in 1..Cardinality(ts) |->
                                    tasks[CHOOSE t \in ts :
                                              Cardinality({u \in ts : u < t}) = k - 1].results])
             IN  finished(restore_order(invocations[call].texts,
                                        all_results(tasks_of(call)), 1, 1, <<>>))
    /\ UNCHANGED <<max_concurrent, semaphore, batch_cache, tasks>>
    /\ async_unchanged

NextAsync == TranslateBatchAsync \/ StartBatch \/ ResumeBatch \/ ApiResponds \/ Gather

SpecAsync == InitAsync /\ [][NextAsync]_vars

\* C23: translate_batch_async returns a list as long as texts whose entry i
\* is the response for texts[i]: an empty successful response for a blank
\* text, the translation of texts[i] or a failure otherwise.
C23_ResponsesInInputOrder ==
    \A call \in 1..Len(invocations) :
        invocations[call].pc = "returned" =>
            /\ invocations[call].raised = None
            /\ Len(invocations[call].value) = Len(invocations[call].texts)
            /\ \A i \in 1..Len(invocations[call].texts) :
                  LET text == invocations[call].texts[i]
                      response == invocations[call].value[i]
                  IN  IF strip(text) = <<>>
                      THEN response.success /\ response.text = <<>>
                      ELSE response.success => response.text = api_translation(text)

\* the event loop runs every coroutine that is ready, and every API call
\* ends: with an answer, or with the error of the client's timeout
SpecAsyncFair ==
    InitAsync /\ [][NextAsync]_vars
        /\ WF_vars(StartBatch) /\ WF_vars(ResumeBatch) /\ WF_vars(ApiResponds) /\ WF_vars(Gather)

\* C24: at every moment at most max_concurrent batches are inside the
\* section of _translate_batch that calls the API, whatever the number of
\* batches and of concurrent translate_batch_async calls, and every batch
\* launched eventually completes: again and again all the batches launched
\* so far are done.
C24_BoundedAndLive ==
    /\ [](Cardinality(inside) <= max_concurrent)
    /\ []<>(\A t \in 1..Len(tasks) : tasks[t].pc = "done")

\* batches of two concurrent calls fill the section while another waits
C24_Witness ==
    /\ Cardinality(inside) = max_concurrent
    /\ \E t \in inside, u \in inside : tasks[t].call # tasks[u].call
    /\ \E t \in 1..Len(tasks) : tasks[t].pc = "waiting"

\* C30: translation_cache holds only successful batch results.
C30_OnlySuccessCached ==
    \A k \in 1..Len(batch_cache) :
        \A i \in 1..Len(batch_cache[k][2]) : batch_cache[k][2][i].success

(***************************************************************************)
(* The post-processing steps on their own: one step, applied once and      *)
(* again to its own result, per behaviour.                                 *)
(***************************************************************************)
StepWords == <<<<"z","a","z","a","m","e","d","l","e","n","n","o">>, <<"Q","i">>, <<"v","e","s","'","m","a">>, <<"g","r","u","b","o">>, <<"s","p","o","k","o","j","n","o">>, <<"m","e","d","l","e","n","n","o">>>>

\* the texts made of some of the words above, in their order
StepTexts ==
    {join_parts([k \in 1..Len(StepWords) |-> IF k \in chosen THEN StepWords[k] ELSE <<>>], <<" ">>) :
        chosen \in SUBSET (1..Len(StepWords))}

InitSteps ==
    /\ memory_file \in {EmptyList, JsonObject}
    /\ reference_data = IF memory_file = JsonObject THEN ReferenceBase ELSE NoReference
    /\ phrase_cache = <<>>
    /\ add_calls = 0
    /\ last_add = None
    /\ last_find = None
    /\ last_lookup = None
    /\ collection = None
    /\ last_call = None
    /\ TranslatorIdle
    /\ AsyncIdle
    /\ now = 0

steps_unchanged ==
    UNCHANGED <<memory_file, reference_data, phrase_cache, add_calls, last_add, last_find,
                last_lookup, collection, translator_vars, async_vars, now>>

\* translator._apply_glossary(text), and again on its result
ApplyGlossary ==
    /\ last_call = None
    /\ \E text \in StepTexts :
          LET applied(once) ==
                  last_call' = Some([op |-> "_apply_glossary", text |-> text, once |-> once,
                                     twice |-> apply_glossary(reference_data, once)])
          IN  applied(apply_glossary(reference_data, text))
    /\ steps_unchanged

\* translator._check_forbidden_words(text), and again on its result
CheckForbiddenWords ==
    /\ last_call = None
    /\ \E text \in StepTexts :
          LET applied(once) ==
                  last_call' = Some([op |-> "_check_forbidden_words", text |-> text, once |-> once,
                                     twice |-> check_forbidden_words(reference_data, once)])
          IN  applied(check_forbidden_words(reference_data, text))
    /\ steps_unchanged

\* translator._apply_character_style(text, character_type), and again on its result
ApplyCharacterStyle ==
    /\ last_call = None
    /\ \E text \in StepTexts, character \in {"System", "Jiang_Chen"} :
          LET applied(once) ==
                  last_call' = Some([op |-> "_apply_character_style", text |-> text, once |-> once,
                                     twice |-> apply_character_style(reference_data, once, character)])
          IN  applied(apply_character_style(reference_data, text, character))
    /\ steps_unchanged

\* translator._adapt_for_scene(text, scene), and again on its result
AdaptForScene ==
    /\ last_call = None
    /\ \E text \in StepTexts, scene \in {Battle, Romantic} :
          LET applied(once) ==
                  last_call' = Some([op |-> "_adapt_for_scene", text |-> text, once |-> once,
                                     twice |-> adapt_for_scene(once, scene)])
          IN  applied(adapt_for_scene(text, scene))
    /\ steps_unchanged

\* translator._adapt_for_tone(text, tone), and again on its result
AdaptForTone ==
    /\ last_call = None
    /\ \E text \in StepTexts, tone \in {Tense, Sad} :
          LET applied(once) ==
                  last_call' = Some([op |-> "_adapt_for_tone", text |-> text, once |-> once,
                                     twice |-> adapt_for_tone(once, tone)])
          IN  applied(adapt_for_tone(text, tone))
    /\ steps_unchanged

NextSteps ==
    ApplyGlossary \/ CheckForbiddenWords \/ ApplyCharacterStyle \/ AdaptForScene \/ AdaptForTone

SpecSteps == InitSteps /\ [][NextSteps]_vars

\* C25: every post-processing step is idempotent: applied to its own
\* result it changes nothing.
C25_StepsIdempotent ==
    last_call # None => last_call[1].twice = last_call[1].once

(***************************************************************************)
(* A DeepLCache on its own: get_or_translate calls while the time passes   *)
(***************************************************************************)
\* the hours that pass in one step of the clock, and the last hour looked at
TickHours == 12
MaxNow == 48

CacheTexts == {<<"a">>, <<"b">>}
\* what translate_func may answer: a translation (the empty one included),
\* or an exception (None)
CacheResponses == {None, Some(<<>>), Some(<<"x">>), Some(<<"y">>)}

InitCache ==
    /\ memory_file = EmptyList
    /\ reference_data = NoReference
    /\ phrase_cache = <<>>
    /\ add_calls = 0
    /\ last_add = None
    /\ last_find = None
    /\ last_lookup = None
    /\ collection = None
    /\ last_call = None
    /\ TranslatorIdle
    /\ AsyncIdle
    /\ now = 0

\* cache.get_or_translate(text, translate_func)
GetOrTranslate ==
    /\ \E text \in CacheTexts, response \in CacheResponses :
          LET returned(r) ==
                  /\ deepl_cache' = r.cache
                  /\ last_call' = Some([op |-> "get_or_translate", text |-> text,
                                        result |-> r.text, api |-> r.api, time |-> now])
          IN  returned(get_or_translate(deepl_cache, text, response))
    /\ UNCHANGED <<memory_file, reference_data, phrase_cache, add_calls, last_add, last_find,
                   last_lookup, collection, has_translator, pc, run_text, run_context, segments,
                   order, results, calls, translation_cache, async_vars, now>>

\* time passes
Tick ==
    /\ now + TickHours <= MaxNow
    /\ now' = now + TickHours
    /\ UNCHANGED <<memory_file, reference_data, phrase_cache, add_calls, last_add, last_find,
                   last_lookup, collection, last_call, translator_vars, async_vars>>

NextCache == GetOrTranslate \/ Tick

SpecCache == InitCache /\ [][NextCache]_vars

\* the cache holds for the text an entry that is not older than max_age_hours
fresh_entry(text) ==
    dict_has(deepl_cache, text) /\ ~is_expired(dict_get(deepl_cache, text).timestamp)

\* C26: a get_or_translate of a text whose translation t is cached and not
\* older than max_age_hours returns t without calling translate_func, for
\* every value of t.
C26_FreshEntryServed ==
    [][(now' = now /\ last_call' # None /\ fresh_entry(last_call'[1].text))
          => /\ last_call'[1].api = "cached"
             /\ last_call'[1].result = dict_get(deepl_cache, last_call'[1].text).translation
             /\ deepl_cache' = deepl_cache]_vars

\* C27: translate_with_context returns exactly one result per segment of
\* split_by_lines(text), and resolves and persists each segment at most once,
\* also on the batch path when a line is both a dialogue and a system line.
C27_OneResultPerSegment ==
    pc = "done" =>
        /\ Len(results) = Len(segments)
        /\ \A i, j \in 1..Len(calls) : calls[i].segment = calls[j].segment => i = j

\* C28: after the external Translate call has failed for a segment, the
\* translation_cache holds nothing under the segment's key and the memory
\* store holds no record of it.
C28_FailureLeavesNoTrace ==
    \A i \in 1..Len(calls) :
        calls[i].api = "failed" =>
            /\ ~dict_has(translation_cache,
                         cache_key(segments[calls[i].segment].content,
                                   run_context[1].translation_style))
            /\ calls[i].saved = None

(***************************************************************************)
(* Record ids and cache keys: a few add_translation and _translate_segment *)
(* calls on one store and one translator, texts, chapters and styles with  *)
(* and without underscores.  last_call is the list of the calls made.      *)
(***************************************************************************)
MaxKeyCalls == 2

KeyTexts == {<<"a">>, <<"a","_","b">>, <<"b">>}
KeyChapters == {Chapter1, <<"b","_","1">>}
KeyStyles == {ModernWebNovel, <<"b","_","m","o","d","e","r","n","_","w","e","b","_","n","o","v","e","l">>}

InitKeys ==
    /\ memory_file = EmptyList
    /\ reference_data = NoReference
    /\ phrase_cache = <<>>
    /\ add_calls = 0
    /\ last_add = None
    /\ last_find = None
    /\ last_lookup = None
    /\ collection = None
    /\ last_call = <<>>
    /\ has_translator = TRUE
    /\ pc = "idle"
    /\ run_text = <<>>
    /\ run_context = None
    /\ segments = <<>>
    /\ order = <<>>
    /\ results = <<>>
    /\ calls = <<>>
    /\ translation_cache = <<>>
    /\ deepl_cache = <<>>
    /\ AsyncIdle
    /\ now = 0

\* manager.add_translation(memory)
AddKeyedTranslation ==
    /\ Len(last_call) < MaxKeyCalls
    /\ \E text \in KeyTexts, chapter \in KeyChapters :
          LET added(saved) ==
                  /\ memory_file' = saved.file
                  /\ last_call' = Append(last_call,
                                         [op |-> "add_translation", pair |-> <<text, chapter>>,
                                          id |-> saved.id])
          IN  added(add_translation(memory_file,
                        TranslationMemory(text, api_translation(text), chapter, None, None, None)))
    /\ UNCHANGED <<reference_data, phrase_cache, add_calls, last_add, last_find, last_lookup,
                   collection, translator_vars, async_vars, now>>

\* translator._translate_segment(segment, context); the external Translate
\* capability answers with the translation of the segment
TranslateKeyedSegment ==
    /\ Len(last_call) < MaxKeyCalls
    /\ \E content \in KeyTexts, style \in KeyStyles :
          LET translated(r) ==
                  /\ translation_cache' = r.tcache
                  /\ deepl_cache' = r.dcache
                  /\ last_call' = Append(last_call,
                                         [op |-> "_translate_segment", pair |-> <<content, style>>,
                                          result |-> r.result])
          IN  translated(translate_segment(line_segment(content, 1),
                             TranslationContext(Chapter1, <<>>, <<>>, style),
                             translation_cache, deepl_cache, memory_file, reference_data,
                             has_translator, Some(api_translation(content))))
    /\ UNCHANGED <<memory_file, reference_data, phrase_cache, add_calls, last_add, last_find,
                   last_lookup, collection, has_translator, pc, run_text, run_context, segments,
                   order, results, calls, async_vars, now>>

NextKeys == AddKeyedTranslation \/ TranslateKeyedSegment

SpecKeys == InitKeys /\ [][NextKeys]_vars

\* C29: records with different (source text, chapter) pairs get different
\* ids from add_translation, and a (segment text, style) pair that has not
\* been resolved before is not served from the local cache under the key of
\* another pair.
C29_KeysInjective ==
    \A i, j \in 1..Len(last_call) :
        i < j =>
            /\ (/\ last_call[i].op = "add_translation"
                /\ last_call[j].op = "add_translation"
                /\ last_call[i].pair # last_call[j].pair)
                   => last_call[i].id # last_call[j].id
            /\ (/\ last_call[i].op = "_translate_segment"
                /\ last_call[j].op = "_translate_segment"
                /\ last_call[i].pair # last_call[j].pair)
                   => last_call[j].result.translator # "Cache"

====
